---- MODULE Spec2Model ----
(***************************************************************************)
(* GDB remote-serial-protocol stub for DJGPP/i386 (gdbstub/i386-stub.c,    *)
(* gdbstub/i386-supp.c).  Bytes are modelled by their ASCII codes, 32-bit   *)
(* words by the value of a C int (-2^31 .. 2^31-1).  One step of the stub  *)
(* is the code that runs from a blocking read of the serial line           *)
(* (getDebugChar) over the bytes the host has put on the line, up to the   *)
(* read at which it blocks again.                                          *)
(***************************************************************************)
EXTENDS Integers, Sequences, FiniteSets, TLC

(***************************************************************************)
(* Character codes                                                         *)
(***************************************************************************)
Digits == << "0", "1", "2", "3", "4", "5", "6", "7", "8", "9" >>
Upper == << "A", "B", "C", "D", "E", "F", "G", "H", "I", "J", "K", "L", "M",
            "N", "O", "P", "Q", "R", "S", "T", "U", "V", "W", "X", "Y", "Z" >>
Lower == << "a", "b", "c", "d", "e", "f", "g", "h", "i", "j", "k", "l", "m",
            "n", "o", "p", "q", "r", "s", "t", "u", "v", "w", "x", "y", "z" >>
Punct == ("#" :> 35) @@ ("$" :> 36) @@ ("+" :> 43) @@ ("," :> 44) @@ ("-" :> 45) @@
         (":" :> 58) @@ ("=" :> 61) @@ ("?" :> 63)

Ascii ==
  Punct @@ [c \in {Digits[i] : i \in 1..10} |-> 47 + CHOOSE i \in 1..10 : Digits[i] = c]
        @@ [c \in {Upper[i] : i \in 1..26} |-> 64 + CHOOSE i \in 1..26 : Upper[i] = c]
        @@ [c \in {Lower[i] : i \in 1..26} |-> 96 + CHOOSE i \in 1..26 : Lower[i] = c]

\* the ASCII code of a one-character string
Ord(c) == Ascii[c]

\* a C string literal, written as a tuple of one-character strings
Str(s) == [i \in 1..Len(s) |-> Ord(s[i])]

HalfWord == 65536
Byte == 256

\* the four bytes of an int, least significant first
IntBytes(x) ==
  << x % Byte, (x \div 256) % Byte, (x \div 65536) % Byte, (x \div 16777216) % Byte >>

\* the int stored in four bytes, least significant first
BytesInt(b) ==
  16777216 * (IF b[4] >= 128 THEN b[4] - Byte ELSE b[4]) + 65536 * b[3] + 256 * b[2] + b[1]

\* x + d in 32-bit arithmetic, for a small d
AddInt(x, d) ==
  LET lo == (x % HalfWord) + d
      hi == ((x \div HalfWord) + (lo \div HalfWord)) % HalfWord
  IN  (IF hi >= HalfWord \div 2 THEN hi - HalfWord ELSE hi) * HalfWord + (lo % HalfWord)

RECURSIVE BitAnd(_, _, _)
\* x & y over n bits
BitAnd(x, y, n) ==
  IF n = 0 THEN 0
  ELSE (x % 2) * (y % 2) + 2 * BitAnd(x \div 2, y \div 2, n - 1)

RECURSIVE BitOr(_, _, _)
\* x | y over n bits
BitOr(x, y, n) ==
  IF n = 0 THEN 0
  ELSE (IF (x % 2) + (y % 2) > 0 THEN 1 ELSE 0) + 2 * BitOr(x \div 2, y \div 2, n - 1)

\* x & mask and x | mask on ints, the mask given by its four bytes
IntAnd(x, mask) == BytesInt([i \in 1..4 |-> BitAnd(IntBytes(x)[i], mask[i], 8)])
IntOr(x, mask) == BytesInt([i \in 1..4 |-> BitOr(IntBytes(x)[i], mask[i], 8)])

RECURSIVE Sum(_)
\* the sum of the bytes of s (summed by halves to keep the evaluation shallow)
Sum(s) ==
  IF Len(s) = 0 THEN 0
  ELSE IF Len(s) = 1 THEN s[1]
  ELSE Sum(SubSeq(s, 1, Len(s) \div 2)) + Sum(SubSeq(s, (Len(s) \div 2) + 1, Len(s)))

(***************************************************************************)
(* Constants of the stub                                                   *)
(***************************************************************************)
BUFMAX == 400
NUMREGS == 16
NUMREGBYTES == NUMREGS * 4

\* "0123456789abcdef"
hexchars == << 48, 49, 50, 51, 52, 53, 54, 55, 56, 57, 97, 98, 99, 100, 101, 102 >>

\* enum regnames
EAX == 0
ECX == 1
EDX == 2
EBX == 3
ESP == 4
EBP == 5
ESI == 6
EDI == 7
PC == 8
PS == 9
CS == 10
SS == 11
DS == 12
ES == 13
FS == 14
GS == 15

SegRegs == {CS, SS, DS, ES, FS, GS}

\* 0xfffffeff and 0x100, least significant byte first
TFMask == << 255, 254, 255, 255 >>
TFBit == << 0, 1, 0, 0 >>

(***************************************************************************)
(* Hex codec                                                               *)
(***************************************************************************)
\* hex that knows the lower-case letters only
hexLowerOnly(ch) ==
  IF ch >= 97 /\ ch <= 102 THEN ch - 97 + 10
  ELSE IF ch >= 48 /\ ch <= 57 THEN ch - 48
  ELSE -1

\* hex: 'a' is 97, 'f' is 102, '0' is 48, '9' is 57, 'A' is 65, 'F' is 70
hex(ch) ==
  IF ch >= 97 /\ ch <= 102 THEN ch - 97 + 10
  ELSE IF ch >= 48 /\ ch <= 57 THEN ch - 48
  ELSE IF ch >= 65 /\ ch <= 70 THEN ch - 65 + 10
  ELSE -1

\* the two characters mem2hex stores for one byte
HexOfByte(ch) == << hexchars[(ch \div 16) + 1], hexchars[(ch % 16) + 1] >>

\* mem2hex without faults: the characters stored for a sequence of bytes
mem2hex(bytes) ==
  [i \in 1..(2 * Len(bytes)) |-> HexOfByte(bytes[(i + 1) \div 2])[2 - (i % 2)]]

\* a NUL-padded buffer read at a 0-based index
BufAt(buf, i) == IF i < Len(buf) THEN buf[i + 1] ELSE 0

\* hex2mem taking the low nibble first
ByteOfHexLowFirst(c1, c2) == (((hex(c2) * 16) % Byte) + hex(c1)) % Byte

\* the byte hex2mem computes from two characters (unsigned char arithmetic)
ByteOfHex(c1, c2) == (((hex(c1) * 16) % Byte) + hex(c2)) % Byte

\* hex2mem: the count bytes decoded from buf starting at index p
hex2mem(buf, p, count) ==
  [i \in 1..count |-> ByteOfHex(BufAt(buf, p + 2 * (i - 1)), BufAt(buf, p + 2 * (i - 1) + 1))]

RECURSIVE HexRun(_, _)
\* number of leading hex digits of buf from index p
HexRun(buf, p) ==
  IF BufAt(buf, p) # 0 /\ hex(BufAt(buf, p)) >= 0 THEN 1 + HexRun(buf, p + 1) ELSE 0

\* x << 4 on a 32-bit int
Shl4(x) ==
  LET lo == x % 268435456
  IN  (IF lo >= 134217728 THEN lo - 268435456 ELSE lo) * 16

RECURSIVE HexVal(_, _, _, _)
\* the loop of hexToInt: (*intValue << 4) | hexValue for n digits
HexVal(buf, p, n, acc) ==
  IF n = 0 THEN acc
  ELSE HexVal(buf, p + 1, n - 1, Shl4(acc) + hex(BufAt(buf, p)))

\* hexToInt: number of characters consumed, value, and the advanced pointer
hexToInt(buf, p) ==
  LET n == HexRun(buf, p)
  IN  [numChars |-> n, intValue |-> HexVal(buf, p, n, 0), ptr |-> p + n]

(***************************************************************************)
(* Register storage as bytes (i386 is little-endian)                       *)
(***************************************************************************)
RegBytes(regs) ==
  [k \in 1..NUMREGBYTES |-> IntBytes(regs[(k - 1) \div 4])[((k - 1) % 4) + 1]]

BytesToRegs(b) ==
  [r \in 0..(NUMREGS - 1) |-> BytesInt(<< b[4 * r + 1], b[4 * r + 2], b[4 * r + 3], b[4 * r + 4] >>)]

\* store the bytes bs at byte offset off of the register array
StoreRegBytes(regs, off, bs) ==
  BytesToRegs([k \in 1..NUMREGBYTES |->
                 IF k > off /\ k <= off + Len(bs) THEN bs[k - off] ELSE RegBytes(regs)[k]])

(***************************************************************************)
(* computeSignal                                                           *)
(***************************************************************************)
\* computeSignal with the page fault reported as SIGBUS
computeSignalPageFaultBus(exceptionVector) ==
  CASE exceptionVector = 0 -> 8
    [] exceptionVector = 1 -> 5
    [] exceptionVector = 302 -> 5
    [] exceptionVector = 3 -> 5
    [] exceptionVector = 4 -> 16
    [] exceptionVector = 5 -> 16
    [] exceptionVector = 6 -> 4
    [] exceptionVector = 7 -> 8
    [] exceptionVector = 8 -> 7
    [] exceptionVector = 9 -> 11
    [] exceptionVector = 10 -> 11
    [] exceptionVector = 11 -> 11
    [] exceptionVector = 12 -> 11
    [] exceptionVector = 13 -> 11
    [] exceptionVector = 16 -> 7
    [] OTHER -> 7

computeSignal(exceptionVector) ==
  CASE exceptionVector = 0 -> 8
    [] exceptionVector = 1 -> 5
    [] exceptionVector = 302 -> 5
    [] exceptionVector = 3 -> 5
    [] exceptionVector = 4 -> 16
    [] exceptionVector = 5 -> 16
    [] exceptionVector = 6 -> 4
    [] exceptionVector = 7 -> 8
    [] exceptionVector = 8 -> 7
    [] exceptionVector = 9 -> 11
    [] exceptionVector = 10 -> 11
    [] exceptionVector = 11 -> 11
    [] exceptionVector = 12 -> 11
    [] exceptionVector = 13 -> 11
    [] exceptionVector = 14 -> 11
    [] exceptionVector = 16 -> 7
    [] OTHER -> 7

\* the stop reply built at lines 853-856 and 868-871
StopReply(sigval) ==
  << Ord("S"), hexchars[(sigval \div 16) + 1], hexchars[(sigval % 16) + 1] >>

(***************************************************************************)
(* putpacket framing                                                       *)
(***************************************************************************)
\* putpacket with the two checksum characters in the other order
FrameLowFirst(buffer) ==
  LET checksum == Sum(buffer) % Byte
  IN  << Ord("$") >> \o buffer \o
      << Ord("#"), hexchars[(checksum % 16) + 1], hexchars[(checksum \div 16) + 1] >>

\* the bytes one pass of the putpacket loop sends for a NUL-terminated buffer
Frame(buffer) ==
  LET checksum == Sum(buffer) % Byte
  IN  << Ord("$") >> \o buffer \o
      << Ord("#"), hexchars[(checksum \div 16) + 1], hexchars[(checksum % 16) + 1] >>

(***************************************************************************)
(* Bounds of the model                                                     *)
(***************************************************************************)
\* number of target bytes that are mapped (the rest of the address space faults)
MemSize == 2
\* number of distinct register states the debuggee can be interrupted in
NumProgStates == 2
\* number of bytes other than '+' the host sends in answer to one packet
MaxNaks == 2

(***************************************************************************)
(* Environment: target memory, CPU contexts, signals                       *)
(***************************************************************************)
\* first mapped target address (0x1000)
MemBase == 4096
MemAddrs == MemBase..(MemBase + MemSize - 1)
InitMem == [a \in MemAddrs |-> (a - MemBase + 1) % Byte]

Signals == {"SIGSEGV", "SIGFPE", "SIGTRAP", "SIGILL"}

ZeroRegs == [r \in 0..(NUMREGS - 1) |-> 0]

\* register state of the debuggee at its n-th possible interruption point:
\* eax, esp, eip and eflags vary, the selectors are 16-bit values
ProgRegs(n) ==
  [ZeroRegs EXCEPT ![EAX] = IF n % 2 = 1 THEN 287454020 ELSE -559038737,
                   ![ECX] = 3, ![EDX] = 1016, ![EBX] = 1044992,
                   ![EBP] = 1044736, ![ESI] = 16384, ![EDI] = 16640,
                   ![ESP] = 1044480 + 16 * n,
                   ![PC] = 8192 + n,
                   ![PS] = IF n % 2 = 1 THEN 514 ELSE 770,
                   ![CS] = 167, ![SS] = 175, ![DS] = 175, ![ES] = 175,
                   ![FS] = 0, ![GS] = 191]
ProgRegFiles == {ProgRegs(n) : n \in 1..NumProgStates}

\* register state of the stub itself when an access in get_char/set_char faults
StubRegs ==
  [ZeroRegs EXCEPT ![ESP] = 1044000, ![PC] = 20480, ![PS] = 66050,
                   ![CS] = 167, ![SS] = 175, ![DS] = 175, ![ES] = 175, ![GS] = 191]

\* values of the __sigmask field of the exception record
SigMasks == {0, 65540}

\* vector reported for a fault inside get_char/set_char (page fault)
FaultVector == 14

\* What longjmp(__djgpp_exception_state, ...) does after a recovered memory
\* fault is decided by the extender's runtime: it resumes the saved frame,
\* and the access either is skipped or is executed again.
FaultResumes == {"escape", "reexecute"}

(***************************************************************************)
(* State                                                                   *)
(***************************************************************************)
VARIABLES
  pc,                 \* where the program is: running, a blocking read of the stub, ...
  gdb_initialized, remote_debug, registers, mem_fault_routine, mem_err,
  remcomInBuffer, remcomOutBuffer, gdb_i386errcode, gdb_i386vector,
  handlers,           \* signal -> installed handler
  atexit_registered,  \* restore_traps registered with atexit
  sigval, stepping, ptr,          \* locals of handle_exception
  checksum, xmitcsum, count,      \* locals of getpacket
  cpu,                \* the architectural registers
  exception_state,    \* the record __djgpp_exception_state points to
  iret_frame,         \* the three words pushed for iret and not yet popped
  mem,                \* mapped target memory
  hostq,              \* bytes sent by the host and not yet read
  rx,                 \* bytes the stub read during its latest step
  tx,                 \* bytes the stub sent during its latest step
  touched,            \* target addresses get_char/set_char were called with during that step
  armed,              \* mem_fault_routine was set to set_mem_err during that step
  last_op,            \* the latest call of the program into the stub: init, close, exit, breakpoint
  last_lifecycle,     \* the latest of gdb_target_init and gdb_target_close that was called
  host_naks,          \* bytes other than '+' the host sent since the latest '+'
  host_got,           \* payload of the latest packet the stub sent
  stop_regs,          \* the snapshot as captured on entry to the command loop
  stop_reply,         \* the stop reply sent on entry to the command loop
  oob_write           \* a store was made past the end of a packet buffer

progVars == << gdb_initialized, remote_debug, registers, mem_fault_routine, mem_err,
               gdb_i386errcode, gdb_i386vector, handlers, atexit_registered >>
loopVars == << sigval, stepping, ptr, stop_regs, stop_reply >>
inVars == << remcomInBuffer, checksum, xmitcsum, count, oob_write >>
envVars == << cpu, exception_state, iret_frame, mem >>
vars == << pc, progVars, loopVars, inVars, remcomOutBuffer, envVars, hostq, rx, tx, touched, armed, host_got, host_naks,
          last_op, last_lifecycle >>

Init ==
  /\ pc = "running"
  /\ gdb_initialized = 0
  /\ remote_debug = 0
  /\ registers = ZeroRegs
  /\ mem_fault_routine = "NULL"
  /\ mem_err = 0
  /\ remcomInBuffer = <<>>
  /\ remcomOutBuffer = <<>>
  /\ gdb_i386errcode = 0
  /\ gdb_i386vector = -1
  /\ handlers = [s \in Signals |-> "SIG_DFL"]
  /\ atexit_registered = FALSE
  /\ sigval = 0
  /\ stepping = 0
  /\ ptr = 0
  /\ checksum = 0
  /\ xmitcsum = 0
  /\ count = 0
  /\ cpu \in ProgRegFiles
  /\ exception_state = [regs |-> ZeroRegs, sigmask |-> 0]
  /\ iret_frame = << 0, 0, 0 >>
  /\ mem = InitMem
  /\ hostq = <<>>
  /\ rx = <<>>
  /\ tx = <<>>
  /\ touched = <<>>
  /\ armed = FALSE
  /\ last_op = "none"
  /\ last_lifecycle = "none"
  /\ host_naks = 0
  /\ host_got = <<>>
  /\ stop_regs = ZeroRegs
  /\ stop_reply = <<>>
  /\ oob_write = FALSE

(***************************************************************************)
(* Buffers                                                                 *)
(***************************************************************************)
RECURSIVE Trim(_)
\* a buffer is kept without its trailing NUL bytes
Trim(buf) ==
  IF buf # <<>> /\ buf[Len(buf)] = 0 THEN Trim(SubSeq(buf, 1, Len(buf) - 1)) ELSE buf

\* buffer[i] = v
BufSet(buf, i, v) ==
  Trim([k \in 1..(IF i + 1 > Len(buf) THEN i + 1 ELSE Len(buf)) |->
          IF k = i + 1 THEN v ELSE BufAt(buf, k - 1)])

\* the C string that starts at index p of buf: the bytes up to the first NUL
CStr(buf, p) ==
  LET nuls == {i \in p..(Len(buf) - 1) : buf[i + 1] = 0}
      end == IF nuls = {} THEN Len(buf) ELSE CHOOSE i \in nuls : \A j \in nuls : i <= j
  IN  SubSeq(buf, p + 1, end)

(***************************************************************************)
(* Faultable memory access (mem2hex / hex2mem with may_fault = 1)          *)
(***************************************************************************)
\* the addresses get_char/set_char are called with by a loop of n accesses
\* from addr over target memory m: up to the first that faults
Accessed(m, addr, n) ==
  LET bad == {i \in 0..(n - 1) : AddInt(addr, i) \notin DOMAIN m}
      last == IF bad = {} THEN n - 1 ELSE CHOOSE i \in bad : \A j \in bad : i <= j
  IN  [i \in 1..(last + 1) |-> AddInt(addr, i - 1)]

RECURSIVE ReadLoopNoAdvance(_, _, _, _)
\* mem2hex that does not advance its memory pointer
ReadLoopNoAdvance(m, addr, n, acc) ==
  IF n <= 0 THEN [out |-> acc, fault |-> FALSE]
  ELSE IF addr \notin DOMAIN m THEN [out |-> acc, fault |-> TRUE]
  ELSE ReadLoopNoAdvance(m, addr, n - 1, acc \o HexOfByte(m[addr]))

\* the loop of mem2hex over target memory m: the characters stored and
\* whether get_char faulted (written without recursion, so that ranges as
\* long as the outbound buffer can be evaluated)
ReadLoop(m, addr, n, acc) ==
  LET seen == Accessed(m, addr, n)
      fault == seen # <<>> /\ seen[Len(seen)] \notin DOMAIN m
      read == IF fault THEN SubSeq(seen, 1, Len(seen) - 1) ELSE seen
  IN  [out |-> acc \o mem2hex([i \in 1..Len(read) |-> m[read[i]]]), fault |-> fault]

RECURSIVE WriteLoopNoAdvance(_, _, _, _, _)
\* hex2mem that does not advance its memory pointer
WriteLoopNoAdvance(m, buf, p, addr, n) ==
  IF n <= 0 THEN [mem |-> m, fault |-> FALSE]
  ELSE IF addr \notin DOMAIN m THEN [mem |-> m, fault |-> TRUE]
  ELSE WriteLoopNoAdvance([m EXCEPT ![addr] = ByteOfHex(BufAt(buf, p), BufAt(buf, p + 1))],
                          buf, p + 2, addr, n - 1)

RECURSIVE WriteLoop(_, _, _, _, _)
\* the loop of hex2mem into target memory m: the memory afterwards and
\* whether set_char faulted
WriteLoop(m, buf, p, addr, n) ==
  IF n <= 0 THEN [mem |-> m, fault |-> FALSE]
  ELSE IF addr \notin DOMAIN m THEN [mem |-> m, fault |-> TRUE]
  ELSE WriteLoop([m EXCEPT ![addr] = ByteOfHex(BufAt(buf, p), BufAt(buf, p + 1))],
                 buf, p + 2, AddInt(addr, 1), n - 1)

(***************************************************************************)
(* The state the stub works on, as a record                                *)
(***************************************************************************)
St ==
  [pc |-> pc, remote_debug |-> remote_debug, registers |-> registers,
   mem_fault_routine |-> mem_fault_routine, mem_err |-> mem_err,
   remcomInBuffer |-> remcomInBuffer, remcomOutBuffer |-> remcomOutBuffer,
   gdb_i386errcode |-> gdb_i386errcode, gdb_i386vector |-> gdb_i386vector,
   sigval |-> sigval, stepping |-> stepping, ptr |-> ptr,
   checksum |-> checksum, xmitcsum |-> xmitcsum, count |-> count, oob_write |-> oob_write,
   cpu |-> cpu, exception_state |-> exception_state, iret_frame |-> iret_frame, mem |-> mem,
   hostq |-> hostq, rx |-> rx, tx |-> tx, touched |-> touched, armed |-> armed,
   host_got |-> host_got,
   stop_regs |-> stop_regs, stop_reply |-> stop_reply]

\* the stub's next state is st
Become(st) ==
  /\ pc' = st.pc
  /\ remote_debug' = st.remote_debug
  /\ registers' = st.registers
  /\ mem_fault_routine' = st.mem_fault_routine
  /\ mem_err' = st.mem_err
  /\ remcomInBuffer' = st.remcomInBuffer
  /\ remcomOutBuffer' = st.remcomOutBuffer
  /\ gdb_i386errcode' = st.gdb_i386errcode
  /\ gdb_i386vector' = st.gdb_i386vector
  /\ sigval' = st.sigval
  /\ stepping' = st.stepping
  /\ ptr' = st.ptr
  /\ checksum' = st.checksum
  /\ xmitcsum' = st.xmitcsum
  /\ count' = st.count
  /\ oob_write' = st.oob_write
  /\ cpu' = st.cpu
  /\ exception_state' = st.exception_state
  /\ iret_frame' = st.iret_frame
  /\ mem' = st.mem
  /\ hostq' = st.hostq
  /\ rx' = st.rx
  /\ tx' = st.tx
  /\ touched' = st.touched
  /\ armed' = st.armed
  /\ host_got' = st.host_got
  /\ stop_regs' = st.stop_regs
  /\ stop_reply' = st.stop_reply

(***************************************************************************)
(* The switch of handle_exception, for the packet at index p of the        *)
(* inbound buffer.  kind is "reply" (break, then putpacket), "fault" (an   *)
(* access of get_char/set_char faulted) or "resume"                        *)
(* (_returnFromException).                                                 *)
(***************************************************************************)
Reply(st, out) == [kind |-> "reply", st |-> [st EXCEPT !.remcomOutBuffer = out]]

\* case '?' answering with the trap signal whatever the stop was
CmdLastSignalTrap(st) == Reply(st, StopReply(5))

\* case '?'
CmdLastSignal(st) == Reply(st, StopReply(st.sigval))

\* case 'q' comparing only the first character of the argument
CmdQueryFirstChar(st, p) ==
  LET arg == CStr(st.remcomInBuffer, p + 1)
      first == IF arg = <<>> THEN <<>> ELSE << arg[1] >>
  IN  IF first = Str(<<"C">>) THEN Reply(st, Str(<<"Q","C","0">>))
      ELSE IF first = Str(<<"A">>) THEN Reply(st, Str(<<"1">>))
      ELSE IF first = Str(<<"f">>) THEN Reply(st, Str(<<"m","0">>))
      ELSE IF first = Str(<<"s">>) THEN Reply(st, Str(<<"l">>))
      ELSE IF first = Str(<<"S">>) THEN Reply(st, Str(<<"O","K">>))
      ELSE Reply(st, <<>>)

\* case 'q'
CmdQuery(st, p) ==
  LET arg == CStr(st.remcomInBuffer, p + 1)
  IN  IF arg = Str(<<"C">>) THEN Reply(st, Str(<<"Q","C","0">>))
      ELSE IF arg = Str(<<"A","t","t","a","c","h","e","d">>) THEN Reply(st, Str(<<"1">>))
      ELSE IF arg = Str(<<"f","T","h","r","e","a","d","I","n","f","o">>) THEN Reply(st, Str(<<"m","0">>))
      ELSE IF arg = Str(<<"s","T","h","r","e","a","d","I","n","f","o">>) THEN Reply(st, Str(<<"l">>))
      ELSE IF arg = Str(<<"S","y","m","b","o","l",":",":">>) THEN Reply(st, Str(<<"O","K">>))
      ELSE Reply(st, <<>>)

\* case 'g' sending each word most significant byte first
CmdGetRegsHighFirst(st) ==
  Reply(st, mem2hex([k \in 1..NUMREGBYTES |->
                       RegBytes(st.registers)[4 * ((k - 1) \div 4) + 4 - ((k - 1) % 4)]]))

\* case 'g'
CmdGetRegs(st) == Reply(st, mem2hex(RegBytes(st.registers)))

\* case 'G'
CmdSetRegs(st, p) ==
  Reply([st EXCEPT !.registers = BytesToRegs(hex2mem(st.remcomInBuffer, p + 1, NUMREGBYTES))],
        Str(<<"O","K">>))

\* case 'P' without the test of the register number
CmdSetRegAnyNumber(st, p) ==
  LET r == hexToInt(st.remcomInBuffer, p + 1)
      regno == r.intValue % NUMREGS
  IN  IF r.numChars > 0 /\ BufAt(st.remcomInBuffer, r.ptr) = Ord("=")
      THEN Reply([st EXCEPT !.registers =
                    StoreRegBytes(st.registers, 4 * regno, hex2mem(st.remcomInBuffer, r.ptr + 1, 4))],
                 Str(<<"O","K">>))
      ELSE Reply(st, Str(<<"E","0","1">>))

\* case 'P'
CmdSetReg(st, p) ==
  LET r == hexToInt(st.remcomInBuffer, p + 1)
      regno == r.intValue
  IN  IF r.numChars > 0 /\ BufAt(st.remcomInBuffer, r.ptr) = Ord("=")
         /\ regno >= 0 /\ regno < NUMREGS
      THEN Reply([st EXCEPT !.registers =
                    StoreRegBytes(st.registers, 4 * regno, hex2mem(st.remcomInBuffer, r.ptr + 1, 4))],
                 Str(<<"O","K">>))
      ELSE Reply(st, Str(<<"E","0","1">>))

\* case 'm' without the statement mem_err = 0 before mem2hex: a flag left
\* set by an earlier fault ends mem2hex at its first byte and gives E03
CmdReadMemSticky(st, p) ==
  LET a == hexToInt(st.remcomInBuffer, p + 1)
      l == hexToInt(st.remcomInBuffer, a.ptr + 1)
  IN  IF a.numChars > 0 /\ BufAt(st.remcomInBuffer, a.ptr) = Ord(",") /\ l.numChars > 0
      THEN LET rd == ReadLoop(st.mem, a.intValue, l.intValue, <<>>)
               seen == Accessed(st.mem, a.intValue, l.intValue)
           IN  IF rd.fault
               THEN [kind |-> "fault",
                     st |-> [st EXCEPT !.mem_fault_routine = "set_mem_err",
                                       !.touched = seen, !.armed = TRUE]]
               ELSE IF st.mem_err # 0
               THEN Reply([st EXCEPT !.mem_fault_routine =
                                        IF l.intValue > 0 THEN "set_mem_err" ELSE "NULL",
                                     !.touched = IF seen = <<>> THEN seen ELSE << seen[1] >>,
                                     !.armed = TRUE],
                          Str(<<"E","0","3">>))
               ELSE Reply([st EXCEPT !.mem_fault_routine = "NULL",
                                     !.touched = seen, !.armed = TRUE],
                          rd.out)
      ELSE Reply(st, Str(<<"E","0","1">>))

\* case 'm'; on a fault the characters already stored in the outbound
\* buffer are overwritten before the buffer is next read
CmdReadMem(st, p) ==
  LET a == hexToInt(st.remcomInBuffer, p + 1)
      l == hexToInt(st.remcomInBuffer, a.ptr + 1)
  IN  IF a.numChars > 0 /\ BufAt(st.remcomInBuffer, a.ptr) = Ord(",") /\ l.numChars > 0
      THEN LET rd == ReadLoop(st.mem, a.intValue, l.intValue, <<>>)
               seen == Accessed(st.mem, a.intValue, l.intValue)
           IN  IF rd.fault
               THEN [kind |-> "fault",
                     st |-> [st EXCEPT !.mem_err = 0, !.mem_fault_routine = "set_mem_err",
                                       !.touched = seen, !.armed = TRUE]]
               ELSE Reply([st EXCEPT !.mem_err = 0, !.mem_fault_routine = "NULL",
                                     !.touched = seen, !.armed = TRUE],
                          rd.out)
      ELSE Reply(st, Str(<<"E","0","1">>))

\* case 'M' without the test for ':' after the length
CmdWriteMemNoColon(st, p) ==
  LET a == hexToInt(st.remcomInBuffer, p + 1)
      l == hexToInt(st.remcomInBuffer, a.ptr + 1)
  IN  IF a.numChars > 0 /\ BufAt(st.remcomInBuffer, a.ptr) = Ord(",") /\ l.numChars > 0
      THEN LET wr == WriteLoop(st.mem, st.remcomInBuffer, l.ptr + 1, a.intValue, l.intValue)
               seen == Accessed(st.mem, a.intValue, l.intValue)
           IN  IF wr.fault
               THEN [kind |-> "fault",
                     st |-> [st EXCEPT !.mem = wr.mem, !.mem_err = 0,
                                       !.mem_fault_routine = "set_mem_err",
                                       !.touched = seen, !.armed = TRUE]]
               ELSE Reply([st EXCEPT !.mem = wr.mem, !.mem_err = 0,
                                     !.mem_fault_routine = "NULL",
                                     !.touched = seen, !.armed = TRUE],
                          Str(<<"O","K">>))
      ELSE Reply(st, Str(<<"E","0","2">>))

\* case 'M'
CmdWriteMem(st, p) ==
  LET a == hexToInt(st.remcomInBuffer, p + 1)
      l == hexToInt(st.remcomInBuffer, a.ptr + 1)
  IN  IF a.numChars > 0 /\ BufAt(st.remcomInBuffer, a.ptr) = Ord(",") /\ l.numChars > 0
         /\ BufAt(st.remcomInBuffer, l.ptr) = Ord(":")
      THEN LET wr == WriteLoop(st.mem, st.remcomInBuffer, l.ptr + 1, a.intValue, l.intValue)
               seen == Accessed(st.mem, a.intValue, l.intValue)
           IN  IF wr.fault
               THEN [kind |-> "fault",
                     st |-> [st EXCEPT !.mem = wr.mem, !.mem_err = 0,
                                       !.mem_fault_routine = "set_mem_err",
                                       !.touched = seen, !.armed = TRUE]]
               ELSE Reply([st EXCEPT !.mem = wr.mem, !.mem_err = 0,
                                     !.mem_fault_routine = "NULL",
                                     !.touched = seen, !.armed = TRUE],
                          Str(<<"O","K">>))
      ELSE Reply(st, Str(<<"E","0","2">>))

\* cases 's' and 'c' storing the parsed value whether or not digits were read
CmdResumeAlwaysPC(st, p, step) ==
  LET a == hexToInt(st.remcomInBuffer, p + 1)
      withPC == [st.registers EXCEPT ![PC] = a.intValue]
      cleared == IntAnd(withPC[PS], TFMask)
      flags == IF step # 0 THEN IntOr(cleared, TFBit) ELSE cleared
  IN  [kind |-> "resume",
       st |-> [st EXCEPT !.stepping = step, !.registers = [withPC EXCEPT ![PS] = flags]]]

\* cases 's' and 'c' without the statement that clears the trace bit
CmdResumeNoClear(st, p, step) ==
  LET a == hexToInt(st.remcomInBuffer, p + 1)
      withPC == IF a.numChars > 0 THEN [st.registers EXCEPT ![PC] = a.intValue]
                ELSE st.registers
      flags == IF step # 0 THEN IntOr(withPC[PS], TFBit) ELSE withPC[PS]
  IN  [kind |-> "resume",
       st |-> [st EXCEPT !.stepping = step, !.registers = [withPC EXCEPT ![PS] = flags]]]

\* cases 's' and 'c', lines 987-1001; step is the value of stepping
CmdResume(st, p, step) ==
  LET a == hexToInt(st.remcomInBuffer, p + 1)
      withPC == IF a.numChars > 0 THEN [st.registers EXCEPT ![PC] = a.intValue]
                ELSE st.registers
      cleared == IntAnd(withPC[PS], TFMask)
      flags == IF step # 0 THEN IntOr(cleared, TFBit) ELSE cleared
  IN  [kind |-> "resume",
       st |-> [st EXCEPT !.stepping = step, !.registers = [withPC EXCEPT ![PS] = flags]]]

\* the switch of the command loop with a 'k' that leaves the loop
CommandKillLeaves(st, p) ==
  LET cmd == BufAt(st.remcomInBuffer, p)
  IN  CASE cmd = Ord("?") -> CmdLastSignal(st)
        [] cmd = Ord("H") -> Reply(st, Str(<<"O","K">>))
        [] cmd = Ord("q") -> CmdQuery(st, p)
        [] cmd = Ord("d") -> Reply([st EXCEPT !.remote_debug = 1 - st.remote_debug], <<>>)
        [] cmd = Ord("g") -> CmdGetRegs(st)
        [] cmd = Ord("G") -> CmdSetRegs(st, p)
        [] cmd = Ord("P") -> CmdSetReg(st, p)
        [] cmd = Ord("m") -> CmdReadMem(st, p)
        [] cmd = Ord("M") -> CmdWriteMem(st, p)
        [] cmd = Ord("s") -> CmdResume(st, p, 1)
        [] cmd = Ord("c") -> CmdResume(st, p, st.stepping)
        [] cmd = Ord("k") -> [kind |-> "resume", st |-> st]
        [] OTHER -> Reply(st, <<>>)

\* the switch of the command loop, lines 866-1015
Command(st, p) ==
  LET cmd == BufAt(st.remcomInBuffer, p)
  IN  CASE cmd = Ord("?") -> CmdLastSignal(st)
        [] cmd = Ord("H") -> Reply(st, Str(<<"O","K">>))
        [] cmd = Ord("q") -> CmdQuery(st, p)
        [] cmd = Ord("d") -> Reply([st EXCEPT !.remote_debug = 1 - st.remote_debug], <<>>)
        [] cmd = Ord("g") -> CmdGetRegs(st)
        [] cmd = Ord("G") -> CmdSetRegs(st, p)
        [] cmd = Ord("P") -> CmdSetReg(st, p)
        [] cmd = Ord("m") -> CmdReadMem(st, p)
        [] cmd = Ord("M") -> CmdWriteMem(st, p)
        [] cmd = Ord("s") -> CmdResume(st, p, 1)
        [] cmd = Ord("c") -> CmdResume(st, p, st.stepping)
        [] cmd = Ord("k") -> Reply(st, <<>>)
        [] OTHER -> Reply(st, <<>>)

(***************************************************************************)
(* putpacket                                                               *)
(***************************************************************************)
\* the bytes read so far are taken off the line
Take(st, n) ==
  [st EXCEPT !.hostq = SubSeq(st.hostq, n + 1, Len(st.hostq)),
             !.rx = st.rx \o SubSeq(st.hostq, 1, n)]

\* putpacket that does not wait for the answer of the host
PutpacketNoWait(st) ==
  [st EXCEPT !.tx = st.tx \o Frame(st.remcomOutBuffer),
             !.host_got = st.remcomOutBuffer,
             !.remcomOutBuffer = <<>>,
             !.pc = "gp_wait"]

\* one pass of the do-while loop of putpacket up to its read (lines 506-518)
Putpacket(st) ==
  [st EXCEPT !.tx = st.tx \o Frame(st.remcomOutBuffer),
             !.host_got = st.remcomOutBuffer,
             !.pc = "pp_ack"]

\* putpacket that takes any answer of the host for an acknowledgement
PutpacketDoneAny(ch) == ch \in {Ord("+"), Ord("-")}

\* putpacket that takes no answer of the host for an acknowledgement
PutpacketDoneNever(ch) == FALSE

\* the test that ends the do-while loop of putpacket (line 520)
PutpacketDone(ch) == ch = Ord("+")

\* the byte read at line 520: the top of the command loop up to the first
\* read of getpacket, or one more pass of the putpacket loop
PutpacketAck(st) ==
  LET rest == Take(st, 1)
  IN  IF PutpacketDone(Head(st.hostq))
      THEN [rest EXCEPT !.remcomOutBuffer = <<>>, !.pc = "gp_wait"]
      ELSE Putpacket(rest)

(***************************************************************************)
(* handle_exception, entry                                                 *)
(***************************************************************************)
\* lines 839-860: the vector is recorded and the stop reply is sent
EnterLoop(st, v) ==
  Putpacket([st EXCEPT !.gdb_i386vector = v,
                       !.sigval = computeSignal(v),
                       !.remcomOutBuffer = StopReply(computeSignal(v)),
                       !.stepping = 0,
                       !.stop_regs = st.registers,
                       !.stop_reply = StopReply(computeSignal(v))])

(***************************************************************************)
(* getpacket                                                               *)
(***************************************************************************)
\* index of the first byte of q that is in stop, Len(q) + 1 if there is none
FirstOf(q, stop) ==
  LET hits == {i \in 1..Len(q) : q[i] \in stop}
  IN  IF hits = {} THEN Len(q) + 1 ELSE CHOOSE i \in hits : \A j \in hits : i <= j

\* buffer[at], buffer[at + 1], ... = bytes
BufStore(buf, at, bytes) ==
  [k \in 1..(IF at + Len(bytes) > Len(buf) THEN at + Len(bytes) ELSE Len(buf)) |->
     IF k > at /\ k <= at + Len(bytes) THEN bytes[k - at] ELSE BufAt(buf, k - 1)]

\* the retry label without the reset of the sum
GetpacketRetryKeepsSum(st) ==
  [st EXCEPT !.xmitcsum = Byte - 1, !.count = 0, !.pc = "gp_body"]

\* lines 440-442; -1 stored in an unsigned char
GetpacketRetry(st) ==
  [st EXCEPT !.checksum = 0, !.xmitcsum = Byte - 1, !.count = 0, !.pc = "gp_body"]

\* line 437: bytes are dropped up to the start character
GetpacketWait(st) ==
  LET k == FirstOf(st.hostq, {Ord("$")})
  IN  IF k > Len(st.hostq) THEN Take(st, Len(st.hostq))
      ELSE GetpacketRetry(Take(st, k))

\* lines 445-455: the bytes up to '$', '#', the end of the buffer, or the
\* last byte on the line
GetpacketBody(st) ==
  LET room == BUFMAX - st.count
      k == FirstOf(st.hostq, {Ord("$"), Ord("#")})
      n == IF k - 1 < room THEN k - 1 ELSE room
      chunk == SubSeq(st.hostq, 1, n)
      stored == [st EXCEPT !.remcomInBuffer = BufStore(st.remcomInBuffer, st.count, chunk),
                           !.checksum = (st.checksum + Sum(chunk)) % Byte,
                           !.count = st.count + n]
  IN  IF n = room
      THEN [Take(stored, n) EXCEPT !.oob_write = TRUE, !.pc = "gp_wait"]
      ELSE IF k > Len(st.hostq) THEN Take(stored, n)
      ELSE IF st.hostq[k] = Ord("$") THEN GetpacketRetry(Take(stored, k))
      ELSE [Take(stored, k) EXCEPT !.remcomInBuffer = BufSet(stored.remcomInBuffer, stored.count, 0),
                                   !.pc = "gp_csum1"]

\* lines 458-459; for a character that is no hex digit hex returns -1 and
\* the compiler of the stub (gcc) shifts it arithmetically: -16, stored in
\* an unsigned char as 0xf0
GetpacketCsum1(st) ==
  [Take(st, 1) EXCEPT !.xmitcsum = (hex(Head(st.hostq)) * 16) % Byte, !.pc = "gp_csum2"]

\* getpacket without the comparison of the two sums
ChecksumMismatchNever(sum, sent) == FALSE

\* the test of line 463
ChecksumMismatch(sum, sent) == sum # sent

\* lines 474-481: the index the returned pointer has in the buffer
PacketStart(buf) == IF BufAt(buf, 2) = Ord(":") THEN 3 ELSE 0

\* lines 471-476: the bytes sent for an accepted packet
AckBytes(buf) ==
  IF BufAt(buf, 2) = Ord(":") THEN << Ord("+"), BufAt(buf, 0), BufAt(buf, 1) >>
  ELSE << Ord("+") >>

(***************************************************************************)
(* return_to_prog                                                          *)
(***************************************************************************)
\* return_to_prog without the load of edi
TrampolineLoadNoEdi(st) ==
  [r \in 0..(NUMREGS - 1) |->
     IF r \in {PC, PS, CS, EDI} THEN st.cpu[r]
     ELSE IF r = ESP THEN AddInt(st.registers[ESP], -12)
     ELSE IF r \in SegRegs THEN st.registers[r] % HalfWord
     ELSE st.registers[r]]

\* the registers after the instructions before iret: eip, cs and eflags are
\* still the stub's, esp is below the three words pushed
TrampolineLoad(st) ==
  [r \in 0..(NUMREGS - 1) |->
     IF r \in {PC, PS, CS} THEN st.cpu[r]
     ELSE IF r = ESP THEN AddInt(st.registers[ESP], -12)
     ELSE IF r \in SegRegs THEN st.registers[r] % HalfWord
     ELSE st.registers[r]]

\* the three words pushed for iret, top of stack first
TrampolineFrame(regs) == << regs[PC], regs[CS], regs[PS] >>

return_to_prog(st) ==
  [st EXCEPT !.cpu = TrampolineLoad(st),
             !.iret_frame = TrampolineFrame(st.registers),
             !.pc = "rtp_iret"]

(***************************************************************************)
(* A fault of get_char/set_char while mem_fault_routine is set             *)
(***************************************************************************)
\* sigsegv_handler without the statement that clears mem_fault_routine
RecoverFaultNoClear(st, mask) ==
  [st EXCEPT !.exception_state = [regs |-> StubRegs, sigmask |-> mask],
             !.registers = StubRegs,
             !.mem_err = 1]

\* sigsegv_handler, lines 294-299 and 308-311
RecoverFault(st, mask) ==
  [st EXCEPT !.exception_state = [regs |-> StubRegs, sigmask |-> mask],
             !.registers = StubRegs,
             !.mem_err = 1,
             !.mem_fault_routine = "NULL"]

\* sigsegv_handler called with no routine set, lines 294 and 300-305
FaultStops(st, mask) ==
  EnterLoop([st EXCEPT !.exception_state = [regs |-> StubRegs, sigmask |-> mask],
                       !.registers = StubRegs,
                       !.gdb_i386errcode = mask % HalfWord],
            FaultVector)

\* the access is skipped: lines 943-946 and 967-969
FaultEscape(st) ==
  Putpacket([st EXCEPT !.remcomOutBuffer = Str(<<"E","0","3">>)])

\* the access is executed again
FaultReexecute(st) == [st EXCEPT !.pc = "mem_access"]

\* the command loop after its switch: lines 1003 and 1018-1019, or the
\* access of get_char/set_char that is about to fault
AfterCommand(res) ==
  CASE res.kind = "reply" -> Putpacket(res.st)
    [] res.kind = "resume" -> return_to_prog(res.st)
    [] res.kind = "fault" -> [res.st EXCEPT !.pc = "mem_access"]

\* lines 471-481 and 865: the packet is acknowledged and its command taken
Accept(got, p) ==
  Command([got EXCEPT !.tx = got.tx \o AckBytes(got.remcomInBuffer), !.ptr = p], p)

\* lines 463-469
Compare(got) ==
  IF ChecksumMismatch(got.checksum, got.xmitcsum)
  THEN [got EXCEPT !.tx = got.tx \o << Ord("-") >>, !.pc = "gp_wait"]
  ELSE CHOOSE next \in {AfterCommand(res) :
                          res \in {Accept(got, PacketStart(got.remcomInBuffer))}} : TRUE

\* lines 460-481, and the command loop up to its next read, lines 865-1019
GetpacketCsum2(st) ==
  Compare([Take(st, 1) EXCEPT !.xmitcsum = (st.xmitcsum + hex(Head(st.hostq))) % Byte])

(***************************************************************************)
(* The stub between two reads at which it blocks                           *)
(***************************************************************************)
ReadingPcs == {"pp_ack", "gp_wait", "gp_body", "gp_csum1", "gp_csum2"}

StubStep(st) ==
  CASE st.pc = "pp_ack" -> PutpacketAck(st)
    [] st.pc = "gp_wait" -> GetpacketWait(st)
    [] st.pc = "gp_body" -> GetpacketBody(st)
    [] st.pc = "gp_csum1" -> GetpacketCsum1(st)
    [] st.pc = "gp_csum2" -> GetpacketCsum2(st)

RECURSIVE StubRun(_)
StubRun(st) ==
  IF st.hostq = <<>> \/ st.pc \notin ReadingPcs THEN st
  ELSE StubRun(StubStep(st))

\* the host puts the bytes f on the line and the stub reads what it can
Receive(f) ==
  \E next \in {StubRun([St EXCEPT !.hostq = hostq \o f, !.rx = <<>>, !.tx = <<>>,
                        !.touched = <<>>, !.armed = FALSE])} :
     Become(next)

(***************************************************************************)
(* Life cycle: gdb_target_init, gdb_target_close, exit                     *)
(***************************************************************************)
stubState == << remote_debug, registers, mem_fault_routine, mem_err, remcomInBuffer,
                remcomOutBuffer, gdb_i386errcode, gdb_i386vector, loopVars,
                checksum, xmitcsum, count, oob_write, envVars, hostq, rx, tx, touched, armed, host_got >>

\* the handler set_debug_traps installs for a signal
StubHandler ==
  [s \in Signals |->
     CASE s = "SIGSEGV" -> "sigsegv_handler"
       [] s = "SIGFPE" -> "sigfpe_handler"
       [] s = "SIGTRAP" -> "sigtrap_handler"
       [] s = "SIGILL" -> "sigill_handler"]

\* set_debug_traps and atexit(restore_traps)
gdb_target_init ==
  /\ pc = "running"
  /\ handlers' = StubHandler
  /\ gdb_initialized' = 1
  /\ atexit_registered' = TRUE
  /\ last_op' = "init"
  /\ last_lifecycle' = "init"
  /\ UNCHANGED << pc, stubState, host_naks >>

\* restore_traps that leaves the handler of SIGFPE installed
restore_trapsNoFpe ==
  [s \in Signals |-> IF s = "SIGFPE" THEN "sigfpe_handler" ELSE "SIG_DFL"]

\* the handlers after restore_traps
restore_traps == [s \in Signals |-> "SIG_DFL"]

gdb_target_close ==
  /\ pc = "running"
  /\ handlers' = restore_traps
  /\ gdb_initialized' = 0
  /\ last_op' = "close"
  /\ last_lifecycle' = "close"
  /\ UNCHANGED << pc, atexit_registered, stubState, host_naks >>

\* the program exits: the functions registered with atexit run
ProgExit ==
  /\ pc = "running"
  /\ pc' = "exited"
  /\ IF atexit_registered
     THEN handlers' = restore_traps /\ gdb_initialized' = 0
     ELSE UNCHANGED << handlers, gdb_initialized >>
  /\ last_op' = "exit"
  /\ UNCHANGED << atexit_registered, stubState, host_naks, last_lifecycle >>

(***************************************************************************)
(* Exceptions of the program                                               *)
(***************************************************************************)
\* the runtime fills the exception record with the registers r of the
\* program and calls the handler of sig with the number v
Deliver(v, sig, r, mask) ==
  LET caught == [St EXCEPT !.exception_state = [regs |-> r, sigmask |-> mask],
                           !.registers = r,
                           !.cpu = StubRegs,
                           !.rx = <<>>, !.tx = <<>>,
                           !.touched = <<>>, !.armed = FALSE]
  IN  IF handlers[sig] = "SIG_DFL"
      THEN /\ pc' = "exited"
           /\ cpu' = r
           /\ UNCHANGED << remote_debug, registers, mem_fault_routine, mem_err, remcomInBuffer,
                           remcomOutBuffer, gdb_i386errcode, gdb_i386vector, loopVars,
                           checksum, xmitcsum, count, oob_write, exception_state,
                           iret_frame, mem, hostq, rx, tx, touched, armed, host_got >>
      ELSE \E next \in
             {IF sig = "SIGSEGV" /\ mem_fault_routine # "NULL"
              THEN [caught EXCEPT !.mem_err = 1, !.mem_fault_routine = "NULL", !.cpu = r]
              ELSE IF sig = "SIGSEGV"
              THEN EnterLoop([caught EXCEPT !.gdb_i386errcode = mask % HalfWord], v)
              ELSE EnterLoop(caught, v)} :
             Become(next)

Raise(v, sig, r, mask) ==
  /\ pc = "running"
  /\ Deliver(v, sig, r, mask)
  /\ last_op' = "other"
  /\ UNCHANGED << gdb_initialized, handlers, atexit_registered, host_naks, last_lifecycle >>

\* sigsegv_handler without the test of mem_fault_routine
MemFaultAlwaysStops(mask) ==
  /\ pc = "mem_access"
  /\ \E next \in {FaultStops(St, mask)} : Become(next)
  /\ last_op' = "other"
  /\ UNCHANGED << gdb_initialized, handlers, atexit_registered, host_naks, last_lifecycle >>

\* the access of get_char/set_char the stub is at raises SIGSEGV:
\* sigsegv_handler up to its longjmp, or up to the first read of the command
\* loop it calls
MemFault(mask) ==
  /\ pc = "mem_access"
  /\ \E next \in {IF mem_fault_routine # "NULL"
                  THEN [RecoverFault(St, mask) EXCEPT !.pc = "mem_longjmp"]
                  ELSE FaultStops(St, mask)} :
       Become(next)
  /\ last_op' = "other"
  /\ UNCHANGED << gdb_initialized, handlers, atexit_registered, host_naks, last_lifecycle >>

\* longjmp(__djgpp_exception_state, ...) at the end of sigsegv_handler, line
\* 311, and the stub up to its next read or its next access
FaultLongjmp(how) ==
  /\ pc = "mem_longjmp"
  /\ \E next \in {IF how = "escape" THEN FaultEscape(St) ELSE FaultReexecute(St)} :
       Become(next)
  /\ last_op' = "other"
  /\ UNCHANGED << gdb_initialized, handlers, atexit_registered, host_naks, last_lifecycle >>

\* vector of the breakpoint instruction
BreakpointVector == 3

\* breakpoint() without the test of gdb_initialized
breakpointUnguarded(r, mask) ==
  /\ pc = "running"
  /\ Deliver(BreakpointVector, "SIGTRAP", r, mask)
  /\ last_op' = "breakpoint"
  /\ UNCHANGED << gdb_initialized, handlers, atexit_registered, host_naks, last_lifecycle >>

\* breakpoint(): BREAKPOINT() is executed only after set_debug_traps
breakpoint(r, mask) ==
  /\ pc = "running"
  /\ IF gdb_initialized # 0
     THEN Deliver(BreakpointVector, "SIGTRAP", r, mask)
     ELSE UNCHANGED << pc, stubState >>
  /\ last_op' = "breakpoint"
  /\ UNCHANGED << gdb_initialized, handlers, atexit_registered, host_naks, last_lifecycle >>

\* an iret that takes eip from the wrong word of the frame
IretWrongWord ==
  /\ pc = "rtp_iret"
  /\ cpu' = [cpu EXCEPT ![PC] = iret_frame[3],
                        ![CS] = iret_frame[2] % HalfWord,
                        ![PS] = iret_frame[3],
                        ![ESP] = AddInt(cpu[ESP], 12)]
  /\ iret_frame' = << 0, 0, 0 >>
  /\ pc' = "running"
  /\ UNCHANGED << progVars, loopVars, inVars, remcomOutBuffer, exception_state,
                  mem, hostq, rx, tx, touched, armed, host_got, host_naks, last_lifecycle >>
  /\ last_op' = "other"

\* the iret of return_to_prog: eip, cs and eflags are popped together
Iret ==
  /\ pc = "rtp_iret"
  /\ cpu' = [cpu EXCEPT ![PC] = iret_frame[1],
                        ![CS] = iret_frame[2] % HalfWord,
                        ![PS] = iret_frame[3],
                        ![ESP] = AddInt(cpu[ESP], 12)]
  /\ iret_frame' = << 0, 0, 0 >>
  /\ pc' = "running"
  /\ UNCHANGED << progVars, loopVars, inVars, remcomOutBuffer, exception_state,
                  mem, hostq, rx, tx, touched, armed, host_got, host_naks, last_lifecycle >>
  /\ last_op' = "other"

(***************************************************************************)
(* The host                                                                *)
(***************************************************************************)
\* the host answers the packet it received with one byte
HostAck(b) ==
  /\ pc = "pp_ack"
  /\ b # Ord("+") => host_naks < MaxNaks
  /\ Receive(<< b >>)
  /\ host_naks' = IF b = Ord("+") THEN 0 ELSE host_naks + 1
  /\ last_op' = "other"
  /\ UNCHANGED << gdb_initialized, handlers, atexit_registered, last_lifecycle >>

\* the host sends a packet while the stub waits for one
HostSend(f) ==
  /\ pc \in {"gp_wait", "gp_body", "gp_csum1", "gp_csum2"}
  /\ Receive(f)
  /\ last_op' = "other"
  /\ UNCHANGED << gdb_initialized, handlers, atexit_registered, host_naks, last_lifecycle >>

\* the host sends a packet without having answered the one it received
HostEarly(f) ==
  /\ pc = "pp_ack"
  /\ host_naks < MaxNaks
  /\ Receive(f)
  /\ host_naks' = host_naks + 1
  /\ last_op' = "other"
  /\ UNCHANGED << gdb_initialized, handlers, atexit_registered, last_lifecycle >>

\* a well-formed frame, and one whose checksum is off by one
GoodFrame(payload) == Frame(payload)
BadFrame(payload) ==
  LET sum == (Sum(payload) + 1) % Byte
  IN  << Ord("$") >> \o payload \o
      << Ord("#"), hexchars[(sum \div 16) + 1], hexchars[(sum % 16) + 1] >>

\* the host writes back the registers it read with 'g'
HostEchoG ==
  /\ Len(host_got) = 2 * NUMREGBYTES
  /\ HostSend(GoodFrame(<< Ord("G") >> \o host_got))

\* the hex digits of a byte sequence, in upper case
UpperHex(bytes) ==
  LET up == Str(<<"0","1","2","3","4","5","6","7","8","9","A","B","C","D","E","F">>)
  IN  [i \in 1..(2 * Len(bytes)) |->
         IF i % 2 = 1 THEN up[(bytes[(i + 1) \div 2] \div 16) + 1]
         ELSE up[(bytes[(i + 1) \div 2] % 16) + 1]]

\* registers a host writes: eax = 0xdeadbeef, eflags with TF, selectors with
\* bits above bit 15
HostRegs ==
  [ZeroRegs EXCEPT ![EAX] = -559038737, ![ECX] = 7, ![EDI] = 74565,
                   ![ESP] = 1044464, ![PC] = 12288, ![PS] = 770,
                   ![CS] = 65703, ![SS] = 175, ![DS] = -2147483473, ![ES] = 175,
                   ![GS] = 191]

(***************************************************************************)
(* Next-state relation over a menu of host frames, host answers,           *)
(* exceptions, program states and signal masks                             *)
(***************************************************************************)
NextOver(fs, early, acks, excs, rs, masks) ==
  \/ gdb_target_init
  \/ gdb_target_close
  \/ ProgExit
  \/ \E e \in excs, r \in rs, mask \in masks : Raise(e[1], e[2], r, mask)
  \/ \E r \in rs, mask \in masks : breakpoint(r, mask)
  \/ Iret
  \/ \E b \in acks : HostAck(b)
  \/ \E f \in fs : HostSend(f)
  \/ \E f \in early : HostEarly(f)
  \/ HostEchoG

\* the steps of a fault of get_char/set_char, for the sessions whose packets
\* reach unmapped memory
NextFaults(masks) ==
  \/ \E mask \in masks : MemFault(mask)
  \/ \E how \in FaultResumes : FaultLongjmp(how)

HostAcks == {Ord("+"), Ord("-")}

EarlyFrames == {GoodFrame(Str(<<"?">>))}

ProgExceptions == {<< 13, "SIGSEGV" >>, << 1, "SIGTRAP" >>}

\* packets of a session that exercises the framing
HostPayloads ==
  { <<>>,
    Str(<<"?">>),
    Str(<<"g">>),
    Str(<<"c">>),
    Str(<<"s">>),
    Str(<<"m","1","0","0","1",",","2">>),
    Str(<<"A","B",":","?">>) }

HostFrames ==
  {GoodFrame(p) : p \in HostPayloads}
    \cup {BadFrame(Str(<<"g">>)), << Ord("$"), Ord("X") >> \o GoodFrame(Str(<<"?">>))}

Next ==
  \/ NextOver(HostFrames, EarlyFrames, HostAcks, ProgExceptions, ProgRegFiles, {0})
  \/ NextFaults({0})

Spec == Init /\ [][Next]_vars

\* packets of a session that reads and writes the registers
RegPayloads ==
  { Str(<<"?">>),
    Str(<<"g">>),
    Str(<<"c">>),
    Str(<<"s">>),
    Str(<<"c","3","0","0","0">>),
    << Ord("G") >> \o UpperHex(RegBytes(HostRegs)),
    Str(<<"P","8","=","0","0","3","0","0","0","0","0">>),
    Str(<<"m","1","0","0","1",",","2">>) }

RegFrames == {GoodFrame(p) : p \in RegPayloads}

NextRegs ==
  \/ NextOver(RegFrames, EarlyFrames, {Ord("+")}, {<< 13, "SIGSEGV" >>}, ProgRegFiles, {0})
  \/ NextFaults({0})

SpecRegs == Init /\ [][NextRegs]_vars

\* packets of a session that writes single registers: eax, gs, slot 16, a
\* negative slot, no register number, no '='
SetRegPayloads ==
  { Str(<<"g">>),
    Str(<<"c">>),
    Str(<<"P","0","=","4","4","3","3","2","2","1","1">>),
    Str(<<"P","0","f","=","A","7","0","0","0","1","0","0">>),
    Str(<<"P","1","0","=","0","0","3","0","0","0","0","0">>),
    Str(<<"P","f","f","f","f","f","f","f","f","=","0","0","3","0","0","0","0","0">>),
    Str(<<"P","=","0","0","3","0","0","0","0","0">>),
    Str(<<"P","8">>) }

SetRegFrames == {GoodFrame(p) : p \in SetRegPayloads}

NextSetReg ==
  NextOver(SetRegFrames, EarlyFrames, {Ord("+")}, {<< 13, "SIGSEGV" >>}, {ProgRegs(1)}, {0})

SpecSetReg == Init /\ [][NextSetReg]_vars

\* packets of a session that reads and writes target memory: ranges that are
\* mapped and ranges that run off the mapped bytes
MemPayloads ==
  { Str(<<"g">>),
    Str(<<"c">>),
    Str(<<"m","1","0","0","0",",","2">>),
    Str(<<"m","1","0","0","0",",","0">>),
    Str(<<"m","1","0","0","1",",","2">>),
    Str(<<"M","1","0","0","0",",","2",":","a","b","C","D">>),
    Str(<<"M","1","0","0","1",",","1",":","7","f">>),
    Str(<<"M","1","0","0","1",",","2",":","1","2","3","4">>) }

MemFrames == {GoodFrame(p) : p \in MemPayloads}

NextMem ==
  \/ NextOver(MemFrames, EarlyFrames, {Ord("+")}, {<< 13, "SIGSEGV" >>}, {ProgRegs(1)}, {0})
  \/ NextFaults({0})

SpecMem == Init /\ [][NextMem]_vars

\* packets of a session with malformed memory packets: no address, no ',',
\* no length, no ':'
MalformedPayloads ==
  { Str(<<"g">>),
    Str(<<"c">>),
    Str(<<"M","1","0","0","0",",","2",":","a","b","C","D">>),
    Str(<<"m">>),
    Str(<<"m","1","0","0","0">>),
    Str(<<"m","1","0","0","0",",">>),
    Str(<<"M">>),
    Str(<<"M","1","0","0","0">>),
    Str(<<"M","1","0","0","0",",">>),
    Str(<<"M","1","0","0","0",",","2">>) }

MalformedFrames == {GoodFrame(p) : p \in MalformedPayloads}

NextMalformed ==
  NextOver(MalformedFrames, EarlyFrames, {Ord("+")}, {<< 13, "SIGSEGV" >>}, {ProgRegs(1)}, {0})

SpecMalformed == Init /\ [][NextMalformed]_vars

\* packets of a session with queries and with commands the stub does not
\* know: the five queries it answers, two it does not, 'k', 'd', 'H', an
\* unknown letter, the empty packet
QueryPayloads ==
  { <<>>,
    Str(<<"g">>),
    Str(<<"c">>),
    Str(<<"s">>),
    Str(<<"k">>),
    Str(<<"d">>),
    Str(<<"H","g","0">>),
    Str(<<"X","1","0","0","0",",","1",":","a">>),
    Str(<<"q","C">>),
    Str(<<"q","A","t","t","a","c","h","e","d">>),
    Str(<<"q","f","T","h","r","e","a","d","I","n","f","o">>),
    Str(<<"q","s","T","h","r","e","a","d","I","n","f","o">>),
    Str(<<"q","S","y","m","b","o","l",":",":">>),
    Str(<<"q","C","x">>),
    Str(<<"q">>) }

QueryFrames == {GoodFrame(p) : p \in QueryPayloads}

NextQuery ==
  NextOver(QueryFrames, EarlyFrames, {Ord("+")}, {<< 13, "SIGSEGV" >>}, {ProgRegs(1)}, {0})

SpecQuery == Init /\ [][NextQuery]_vars

(***************************************************************************)
(* mem2hex and hex2mem on their own: a byte sequence is encoded, the host  *)
(* changes the case of some letters, and the characters are decoded over   *)
(* the bytes they came from                                                *)
(***************************************************************************)
\* byte values with distinct nibbles, with digits and with letters
CodecBytes == {0, 26, 161, 171, 255}

\* the first n bytes of target memory
MemBytes(m, n) == [i \in 1..n |-> m[MemBase + i - 1]]

\* the character c as a host may send it when it writes in upper case
UpCase(c) == IF c >= 97 /\ c <= 102 THEN c - 32 ELSE c

InitCodec ==
  /\ pc = "codec_src"
  /\ gdb_initialized = 0
  /\ remote_debug = 0
  /\ registers = ZeroRegs
  /\ mem_fault_routine = "NULL"
  /\ mem_err = 0
  /\ remcomInBuffer = <<>>
  /\ remcomOutBuffer = <<>>
  /\ gdb_i386errcode = 0
  /\ gdb_i386vector = -1
  /\ handlers = [s \in Signals |-> "SIG_DFL"]
  /\ atexit_registered = FALSE
  /\ sigval = 0
  /\ stepping = 0
  /\ ptr = 0
  /\ checksum = 0
  /\ xmitcsum = 0
  /\ count = 0
  /\ cpu = ProgRegs(1)
  /\ exception_state = [regs |-> ZeroRegs, sigmask |-> 0]
  /\ iret_frame = << 0, 0, 0 >>
  /\ mem \in [MemAddrs -> CodecBytes]
  /\ hostq = <<>>
  /\ rx = <<>>
  /\ tx = <<>>
  /\ touched = <<>>
  /\ armed = FALSE
  /\ last_op = "none"
  /\ last_lifecycle = "none"
  /\ host_naks = 0
  /\ host_got = <<>>
  /\ stop_regs = ZeroRegs
  /\ stop_reply = <<>>
  /\ oob_write = FALSE

codecFrame == << progVars, loopVars, checksum, xmitcsum, oob_write, envVars, hostq, rx,
                 tx, touched, armed, host_got, host_naks, last_op, last_lifecycle >>

\* mem2hex(mem, remcomOutBuffer, n, 0)
CodecEncode(n) ==
  /\ pc = "codec_src"
  /\ remcomOutBuffer' = mem2hex(MemBytes(mem, n))
  /\ count' = n
  /\ pc' = "codec_hex"
  /\ UNCHANGED << remcomInBuffer, codecFrame >>

\* the host sends the characters back, those at the positions in up in
\* upper case
CodecHost(up) ==
  /\ pc = "codec_hex"
  /\ remcomInBuffer' = [i \in 1..Len(remcomOutBuffer) |->
                          IF i \in up THEN UpCase(remcomOutBuffer[i]) ELSE remcomOutBuffer[i]]
  /\ pc' = "codec_in"
  /\ UNCHANGED << remcomOutBuffer, count, codecFrame >>

\* hex2mem(remcomInBuffer, mem, count, 0)
CodecDecode ==
  /\ pc = "codec_in"
  /\ \E bytes \in {hex2mem(remcomInBuffer, 0, count)} :
       mem' = [a \in MemAddrs |-> IF a - MemBase < count THEN bytes[a - MemBase + 1]
                                  ELSE mem[a]]
  /\ pc' = "codec_done"
  /\ UNCHANGED << cpu, exception_state, iret_frame, remcomInBuffer, remcomOutBuffer, count,
                  progVars, loopVars, checksum, xmitcsum, oob_write, hostq, rx, tx,
                  touched, armed, host_got, host_naks, last_op, last_lifecycle >>

NextCodec ==
  \/ \E n \in 0..MemSize : CodecEncode(n)
  \/ \E up \in SUBSET (1..(2 * MemSize)) : CodecHost(up)
  \/ CodecDecode

SpecCodec == InitCodec /\ [][NextCodec]_vars

\* frames of a session in which a '$' arrives inside a frame: X is dropped
\* and ? is the packet; the same with the checksum of X and ? together; two
\* restarts in a row; a restart after three bytes; a restart after the
\* payload and before '#'
RestartFrames ==
  { GoodFrame(Str(<<"g">>)),
    GoodFrame(Str(<<"c">>)),
    Str(<<"$","X">>) \o GoodFrame(Str(<<"?">>)),
    Str(<<"$","X","$","?","#","9","7">>),
    Str(<<"$","g","$">>) \o GoodFrame(Str(<<"H","c">>)),
    Str(<<"$","m","1","0">>) \o BadFrame(Str(<<"?">>)),
    Str(<<"$","?">>) \o GoodFrame(<<>>) }

NextRestart ==
  NextOver(RestartFrames, EarlyFrames, {Ord("+")}, {<< 13, "SIGSEGV" >>}, {ProgRegs(1)}, {0})

SpecRestart == Init /\ [][NextRestart]_vars

\* a payload of n bytes: H followed by zeros
LongPayload(n) == [i \in 1..n |-> IF i = 1 THEN Ord("H") ELSE Ord("0")]

\* frames of a session with payloads that fill the inbound buffer: 398 and
\* 399 bytes, and 400 bytes
LongFrames ==
  { GoodFrame(Str(<<"g">>)),
    GoodFrame(Str(<<"c">>)),
    GoodFrame(LongPayload(BUFMAX - 2)),
    GoodFrame(LongPayload(BUFMAX - 1)),
    GoodFrame(LongPayload(BUFMAX)) }

NextLong ==
  NextOver(LongFrames, EarlyFrames, {Ord("+")}, {<< 13, "SIGSEGV" >>}, {ProgRegs(1)}, {0})

SpecLong == Init /\ [][NextLong]_vars

\* a session with the four signals and with reads of unmapped memory
FaultExceptions ==
  {<< 13, "SIGSEGV" >>, << 302, "SIGTRAP" >>, << 289, "SIGFPE" >>, << 290, "SIGILL" >>}

FaultFrames ==
  { GoodFrame(Str(<<"g">>)),
    GoodFrame(Str(<<"c">>)),
    GoodFrame(Str(<<"m","2","0","0","0",",","1">>)),
    GoodFrame(Str(<<"M","2","0","0","0",",","1",":","7","f">>)) }

NextSegv ==
  \/ NextOver(FaultFrames, EarlyFrames, {Ord("+")}, FaultExceptions, {ProgRegs(1)}, SigMasks)
  \/ NextFaults(SigMasks)

SpecSegv == Init /\ [][NextSegv]_vars

(***************************************************************************)
(* The serial line as a queue: the host puts bytes on the line, and the    *)
(* stub, which polls the line in getDebugChar, takes them in steps of its  *)
(* own                                                                     *)
(***************************************************************************)
\* what the host puts on the line at once: an answer, two answers, a frame
LinePuts ==
  { << Ord("+") >>,
    << Ord("-") >>,
    << Ord("-"), Ord("+") >>,
    GoodFrame(Str(<<"?">>)),
    GoodFrame(Str(<<"c">>)),
    BadFrame(Str(<<"?">>)) }

\* the host writes to the line once the stub has taken what was on it; rx
\* and tx are the bytes the stub has read and sent since
LinePut(bytes) ==
  /\ pc \in ReadingPcs
  /\ hostq = <<>>
  /\ hostq' = bytes
  /\ rx' = <<>>
  /\ tx' = <<>>
  /\ touched' = <<>>
  /\ armed' = FALSE
  /\ UNCHANGED << pc, progVars, loopVars, inVars, remcomOutBuffer, envVars, host_got,
                  host_naks, last_op, last_lifecycle >>

\* getDebugChar returns: the stub runs up to its next read
StubAdvance ==
  /\ pc \in ReadingPcs
  /\ hostq # <<>>
  /\ \E next \in {StubStep(St)} : Become(next)
  /\ last_op' = "other"
  /\ UNCHANGED << gdb_initialized, handlers, atexit_registered, host_naks, last_lifecycle >>

NextLine ==
  \/ gdb_target_init
  \/ gdb_target_close
  \/ ProgExit
  \/ Raise(13, "SIGSEGV", ProgRegs(1), 0)
  \/ breakpoint(ProgRegs(1), 0)
  \/ Iret
  \/ \E bytes \in LinePuts : LinePut(bytes)
  \/ StubAdvance

\* the host answers the reply it received with '+'
HostPlus == pc = "pp_ack" /\ LinePut(<< Ord("+") >>)

\* the host sends a frame with a correct checksum
HostGood ==
  /\ pc = "gp_wait"
  /\ \E p \in {Str(<<"?">>), Str(<<"c">>)} : LinePut(GoodFrame(p))

\* the stub is a loop that polls the line, so a byte on the line is read;
\* the host does not put off its '+' or its next frame for ever
SpecLine ==
  /\ Init /\ [][NextLine]_vars
  /\ WF_vars(StubAdvance)
  /\ SF_vars(HostPlus)
  /\ SF_vars(HostGood)

\* number of mapped target bytes of a session that reads long ranges: as
\* many as the outbound buffer holds characters for, and half of that again
LongMemSize == BUFMAX \div 2 + BUFMAX \div 4
LongMemAddrs == MemBase..(MemBase + LongMemSize - 1)
LongMem == [a \in LongMemAddrs |-> (a - MemBase + 1) % Byte]

InitLongMem ==
  /\ pc = "running"
  /\ gdb_initialized = 0
  /\ remote_debug = 0
  /\ registers = ZeroRegs
  /\ mem_fault_routine = "NULL"
  /\ mem_err = 0
  /\ remcomInBuffer = <<>>
  /\ remcomOutBuffer = <<>>
  /\ gdb_i386errcode = 0
  /\ gdb_i386vector = -1
  /\ handlers = [s \in Signals |-> "SIG_DFL"]
  /\ atexit_registered = FALSE
  /\ sigval = 0
  /\ stepping = 0
  /\ ptr = 0
  /\ checksum = 0
  /\ xmitcsum = 0
  /\ count = 0
  /\ cpu = ProgRegs(1)
  /\ exception_state = [regs |-> ZeroRegs, sigmask |-> 0]
  /\ iret_frame = << 0, 0, 0 >>
  /\ mem = LongMem
  /\ hostq = <<>>
  /\ rx = <<>>
  /\ tx = <<>>
  /\ touched = <<>>
  /\ armed = FALSE
  /\ last_op = "none"
  /\ last_lifecycle = "none"
  /\ host_naks = 0
  /\ host_got = <<>>
  /\ stop_regs = ZeroRegs
  /\ stop_reply = <<>>
  /\ oob_write = FALSE

\* packets of a session that reads ranges of mapped memory of 1, 199 (0xc7),
\* 200 (0xc8) and 256 (0x100) bytes
ReadLenPayloads ==
  { Str(<<"g">>),
    Str(<<"c">>),
    Str(<<"m","1","0","0","0",",","1">>),
    Str(<<"m","1","0","0","0",",","c","7">>),
    Str(<<"m","1","0","0","0",",","c","8">>),
    Str(<<"m","1","0","0","0",",","1","0","0">>) }

NextReadLen ==
  NextOver({GoodFrame(p) : p \in ReadLenPayloads}, EarlyFrames, {Ord("+")},
           {<< 13, "SIGSEGV" >>}, {ProgRegs(1)}, {0})

SpecReadLen == InitLongMem /\ [][NextReadLen]_vars

\* a frame with the two characters c1, c2 after its '#'
FrameWith(payload, c1, c2) ==
  << Ord("$") >> \o payload \o << Ord("#"), Ord(c1), Ord(c2) >>

\* frames of a session whose checksum fields hold characters that are no hex
\* digits: '?' sums to 0x3f, 'g' to 0x67, "wx" to 0xef
CsumFrames ==
  { GoodFrame(Str(<<"g">>)),
    GoodFrame(Str(<<"c">>)),
    GoodFrame(Str(<<"?">>)),
    FrameWith(Str(<<"?">>), "4", "x"),
    FrameWith(Str(<<"?">>), "3", "x"),
    FrameWith(Str(<<"g">>), "6", "x"),
    FrameWith(Str(<<"g">>), "x", "7"),
    FrameWith(Str(<<"w","x">>), "z", "z") }

NextCsum ==
  NextOver(CsumFrames, EarlyFrames, {Ord("+")}, {<< 13, "SIGSEGV" >>}, {ProgRegs(1)}, {0})

SpecCsum == Init /\ [][NextCsum]_vars

\* the numbers a handler can be called with
Vectors == (-1..17) \cup {289, 290, 291, 302}

SignalExceptions ==
  {<< v, "SIGSEGV" >> : v \in Vectors} \cup {<< 302, "SIGTRAP" >>, << 289, "SIGFPE" >>,
                                             << 290, "SIGILL" >>}

SignalFrames == {GoodFrame(Str(<<"?">>)), GoodFrame(Str(<<"g">>)), GoodFrame(Str(<<"c">>))}

NextSignals ==
  NextOver(SignalFrames, EarlyFrames, {Ord("+")}, SignalExceptions, ProgRegFiles, SigMasks)

SpecSignals == Init /\ [][NextSignals]_vars

(***************************************************************************)
(* Vocabulary of the properties                                            *)
(***************************************************************************)
LowerHexDigits == {Ord(Digits[i]) : i \in 1..10} \cup {Ord(Lower[i]) : i \in 1..6}
UpperHexDigits == {Ord(Upper[i]) : i \in 1..6}

\* value of a hex digit
Nibble(c) ==
  IF c >= 48 /\ c <= 57 THEN c - 48
  ELSE IF c >= 97 /\ c <= 102 THEN c - 87
  ELSE c - 55

\* number of occurrences of the byte b in q
Count(q, b) == Cardinality({i \in 1..Len(q) : q[i] = b})

\* index of the last occurrence of the byte b in q
LastIndex(q, b) == CHOOSE i \in 1..Len(q) : q[i] = b /\ \A j \in (i + 1)..Len(q) : q[j] # b

\* q is what the host sends for one frame: a '$', the payload, '#', two hex digits
WholeFrame(q) ==
  /\ Len(q) >= 4
  /\ Count(q, Ord("$")) >= 1
  /\ Count(q, Ord("#")) = 1
  /\ q[Len(q) - 2] = Ord("#")
  /\ q[Len(q) - 1] \in LowerHexDigits \cup UpperHexDigits
  /\ q[Len(q)] \in LowerHexDigits \cup UpperHexDigits

FramePayload(q) == SubSeq(q, LastIndex(q, Ord("$")) + 1, Len(q) - 3)
SentSum(q) == 16 * Nibble(q[Len(q) - 1]) + Nibble(q[Len(q)])

\* the stub is inside the command loop, blocked in a read
InLoop == pc \in ReadingPcs

\* the command character the loop took from the latest accepted packet
LastCmd == BufAt(remcomInBuffer, ptr)

\* the program was resumed by the latest packet
Resumed == pc = "running" /\ LastCmd \in {Ord("c"), Ord("s")}

\* bit 8 of an eflags value
TF(flags) == (flags \div 256) % 2

(***************************************************************************)
(* C1: for every inbound frame read by getpacket, if the sum of the        *)
(* payload bytes modulo 256 differs from the transmitted checksum the stub *)
(* sends exactly one '-', dispatches no command, sends no reply and waits  *)
(* for '$' again; if the sums agree it sends exactly one '+' and the       *)
(* payload is in the inbound buffer when the command loop runs.            *)
(***************************************************************************)
C1_ChecksumAckNak ==
  [][ (pc = "gp_wait" /\ WholeFrame(rx')) =>
        IF Sum(FramePayload(rx')) % 256 # SentSum(rx')
        THEN /\ tx' = << Ord("-") >>
             /\ pc' = "gp_wait"
             /\ UNCHANGED << registers, mem, mem_err, remote_debug, stepping, sigval,
                             remcomOutBuffer, host_got, cpu >>
        ELSE /\ tx'[1] = Ord("+")
             /\ Count(tx', Ord("+")) = 1
             /\ Count(tx', Ord("-")) = 0
             /\ CStr(remcomInBuffer', 0) = FramePayload(rx')
             /\ pc' \in {"pp_ack", "rtp_iret", "mem_access"} ]_vars

\* a frame with a wrong checksum was read and answered with '-'
C1_Witness ==
  /\ pc = "gp_wait"
  /\ WholeFrame(rx)
  /\ Sum(FramePayload(rx)) % 256 # SentSum(rx)
  /\ tx = << Ord("-") >>

(***************************************************************************)
(* C2: every frame putpacket emits is '$', the payload, '#', and two       *)
(* lowercase hex characters, high nibble first, whose value is the sum of  *)
(* the payload bytes modulo 256; the empty payload gives $#00.             *)
(***************************************************************************)
C2_FrameFormat ==
  /\ pc = "pp_ack" => Count(tx, Ord("$")) >= 1
  /\ \A i \in 1..Len(tx) :
       tx[i] = Ord("$") =>
         LET j == i + Len(remcomOutBuffer) + 1
         IN  /\ pc = "pp_ack"
             /\ j + 2 <= Len(tx)
             /\ SubSeq(tx, i + 1, j - 1) = remcomOutBuffer
             /\ tx[j] = Ord("#")
             /\ tx[j + 1] \in LowerHexDigits
             /\ tx[j + 2] \in LowerHexDigits
             /\ 16 * Nibble(tx[j + 1]) + Nibble(tx[j + 2]) = Sum(remcomOutBuffer) % 256
             /\ (j + 2 < Len(tx) => tx[j + 3] = Ord("$"))

\* the empty payload was sent as $#00
C2_Witness ==
  /\ pc = "pp_ack"
  /\ remcomOutBuffer = <<>>
  /\ tx = << Ord("+"), Ord("$"), Ord("#"), Ord("0"), Ord("0") >>

(***************************************************************************)
(* C3: after emitting a frame putpacket reads one byte; it returns only    *)
(* when the byte is '+'; on any other byte it sends the identical frame    *)
(* again and reads again, however many times that happens.                 *)
(***************************************************************************)
C3_RetransmitUntilAck ==
  [][ (pc = "pp_ack" /\ Len(rx') = 1) =>
        IF rx'[1] = Ord("+")
        THEN pc' = "gp_wait" /\ tx' = <<>>
        ELSE /\ pc' = "pp_ack"
             /\ tx' = SubSeq(tx, LastIndex(tx, Ord("$")), Len(tx))
             /\ remcomOutBuffer' = remcomOutBuffer ]_vars

\* the host refused a packet MaxNaks times and the stub sent it again each time
C3_Witness ==
  /\ pc = "pp_ack"
  /\ host_naks = MaxNaks
  /\ rx = << Ord("-") >>
  /\ tx = << Ord("$") >> \o remcomOutBuffer \o SubSeq(tx, Len(tx) - 2, Len(tx))

(***************************************************************************)
(* C4: for every accepted command other than c and s exactly one reply     *)
(* packet is written in full and acknowledged with '+' before the stub     *)
(* reads the first byte of the next inbound packet; bytes the host sends   *)
(* before its '+' are never taken for a command.                           *)
(***************************************************************************)
C4_OneReplyPerCommand ==
  [][ /\ (pc = "gp_wait" /\ tx' # <<>> /\ tx'[1] = Ord("+")
            /\ BufAt(remcomInBuffer', ptr') \notin {Ord("c"), Ord("s")}
            /\ pc' # "mem_access") =>
           /\ pc' = "pp_ack"
           /\ Count(tx', Ord("$")) = 1
           /\ tx'[Len(tx') - 2] = Ord("#")
           /\ hostq' = <<>>
      /\ (pc \in {"mem_access", "mem_longjmp"} /\ pc' = "pp_ack") =>
           /\ Count(tx', Ord("$")) = 1
           /\ tx'[Len(tx') - 2] = Ord("#")
           /\ hostq' = <<>>
      /\ (pc \in {"mem_access", "mem_longjmp"} /\ pc' # "pp_ack") => tx' = tx
      /\ (pc = "pp_ack" /\ Count(rx', Ord("+")) = 0) =>
           /\ pc' = "pp_ack"
           /\ UNCHANGED << remcomInBuffer, remcomOutBuffer, registers, mem, ptr >>
      /\ (pc = "pp_ack" /\ pc' # "pp_ack") => rx'[1] = Ord("+") ]_vars

\* the host sent a packet before its '+': the stub still waits for the '+'
C4_Witness ==
  /\ pc = "pp_ack"
  /\ WholeFrame(rx)
  /\ Count(tx, Ord("$")) = Len(rx)

(***************************************************************************)
(* C5: on every entry to the command loop the stub first sends 'S' and the *)
(* two lowercase hex digits of the signal computed from the exception      *)
(* vector, before it fetches a packet; every later '?' of the same stop is *)
(* answered with the same Snn, whatever was processed in between.          *)
(***************************************************************************)
C5_StopReply ==
  /\ InLoop =>
       stop_reply = << Ord("S"), hexchars[(computeSignal(gdb_i386vector) \div 16) + 1],
                       hexchars[(computeSignal(gdb_i386vector) % 16) + 1] >>
  /\ (pc = "pp_ack" /\ rx = <<>>) => tx = Frame(stop_reply)
  /\ (pc = "pp_ack" /\ tx # <<>> /\ tx[1] = Ord("+") /\ LastCmd = Ord("?")) =>
       remcomOutBuffer = stop_reply

\* a '?' was answered after the registers had been changed during the stop
C5_Witness ==
  /\ pc = "pp_ack"
  /\ tx # <<>> /\ tx[1] = Ord("+")
  /\ LastCmd = Ord("?")
  /\ registers # stop_regs
  /\ remcomOutBuffer = Str(<<"S","0","b">>)

(***************************************************************************)
(* C6: computeSignal maps 0 to 8, 1 to 5, 3 and 302 to 5, 4 and 5 to 16,   *)
(* 6 to 4, 7 to 8, 8 to 7, each of 9..14 to 11, 16 to 7 and every other    *)
(* vector to 7.                                                            *)
(***************************************************************************)
C6_SignalTable ==
  InLoop =>
    sigval = IF gdb_i386vector = 0 THEN 8
             ELSE IF gdb_i386vector \in {1, 3, 302} THEN 5
             ELSE IF gdb_i386vector \in {4, 5} THEN 16
             ELSE IF gdb_i386vector = 6 THEN 4
             ELSE IF gdb_i386vector = 7 THEN 8
             ELSE IF gdb_i386vector = 8 THEN 7
             ELSE IF gdb_i386vector \in 9..14 THEN 11
             ELSE 7

\* a stop for a vector the table does not list
C6_Witness == InLoop /\ gdb_i386vector = 15 /\ sigval = 7

(***************************************************************************)
(* C7: when the loop is left by 's' bit 8 of the eflags the program        *)
(* resumes with is 1, when it is left by 'c' the bit is 0, whatever the    *)
(* bit was in the snapshot.                                                *)
(***************************************************************************)
C7_TraceFlag ==
  /\ (Resumed /\ LastCmd = Ord("s")) => TF(cpu[PS]) = 1
  /\ (Resumed /\ LastCmd = Ord("c")) => TF(cpu[PS]) = 0
  /\ (pc = "rtp_iret" /\ LastCmd = Ord("s")) => TF(iret_frame[3]) = 1
  /\ (pc = "rtp_iret" /\ LastCmd = Ord("c")) => TF(iret_frame[3]) = 0

\* the program was stopped with the bit set and resumed by 'c'
C7_Witness == Resumed /\ LastCmd = Ord("c") /\ TF(stop_regs[PS]) = 1 /\ TF(cpu[PS]) = 0

(***************************************************************************)
(* C8: after a 'c' packet with no address the eip the program resumes with *)
(* equals the eip captured on entry to the command loop.                   *)
(***************************************************************************)
NoAddress == BufAt(remcomInBuffer, ptr + 1) \notin LowerHexDigits \cup UpperHexDigits

C8_ResumeAtStopEip ==
  (Resumed /\ LastCmd = Ord("c") /\ NoAddress) => cpu[PC] = stop_regs[PC]

\* C8, as the code has it: after a 'c' packet with no address the eip the
\* program resumes with is the value the snapshot's eip slot had just before
\* that packet (the eip of the stop unless a packet of the stop changed it)
C8_ResumeAtSnapshotEip ==
  [][ /\ (pc = "gp_wait" /\ pc' = "rtp_iret" /\ BufAt(remcomInBuffer', ptr') = Ord("c")
            /\ BufAt(remcomInBuffer', ptr' + 1) \notin LowerHexDigits \cup UpperHexDigits) =>
           /\ iret_frame'[1] = registers[PC]
           /\ registers'[PC] = registers[PC]
      /\ pc = "rtp_iret" => cpu'[PC] = iret_frame[1] ]_vars

\* the program was resumed by 'c' at an eip a packet of the stop had written
C8_Witness ==
  /\ Resumed /\ LastCmd = Ord("c") /\ NoAddress
  /\ cpu[PC] = registers[PC]
  /\ cpu[PC] # stop_regs[PC]

(***************************************************************************)
(* C9: when the program resumes through return_to_prog each of the 16      *)
(* registers holds the value of its slot in the snapshot at the moment the *)
(* loop was left, and eip, cs and eflags are reloaded in one step.         *)
(***************************************************************************)
C9_AllRegistersReloaded ==
  Resumed => \A r \in 0..(NUMREGS - 1) : cpu[r] = registers[r]

\* C9, as the code has it: the ten 32-bit registers hold their slots, the six
\* segment registers hold the low 16 bits of their slots, and eip, cs and
\* eflags are the stub's until the one step that reloads all three
C9_RegistersReloaded ==
  /\ Resumed =>
       \A r \in 0..(NUMREGS - 1) :
          cpu[r] = IF r \in {CS, SS, DS, ES, FS, GS} THEN registers[r] % 65536
                   ELSE registers[r]
  /\ pc = "rtp_iret" =>
       /\ cpu[PC] = StubRegs[PC] /\ cpu[CS] = StubRegs[CS] /\ cpu[PS] = StubRegs[PS]
       /\ iret_frame = << registers[PC], registers[CS], registers[PS] >>
       /\ \A r \in {EAX, ECX, EDX, EBX, EBP, ESI, EDI} : cpu[r] = registers[r]
       /\ \A r \in {SS, DS, ES, FS, GS} : cpu[r] = registers[r] % 65536

\* the program was resumed with registers a G packet had written, one of
\* them a selector slot with bits above bit 15
C9_Witness ==
  /\ Resumed
  /\ registers[EAX] = HostRegs[EAX]
  /\ registers[DS] = HostRegs[DS]
  /\ cpu[EAX] = registers[EAX]
  /\ cpu[DS] # registers[DS]

(***************************************************************************)
(* C10: writing back with 'G' the 128 characters replied to 'g' leaves the *)
(* snapshot as it was, and a 'g' after a well-formed 128-character 'G'     *)
(* returns the characters that were written, in lower case.                *)
(***************************************************************************)
LowerCase(q) == [i \in 1..Len(q) |-> IF q[i] \in UpperHexDigits THEN q[i] + 32 ELSE q[i]]

\* the packet in the inbound buffer was accepted and is a well-formed 'G'
AcceptedG ==
  /\ checksum = xmitcsum
  /\ LastCmd = Ord("G")
  /\ Len(CStr(remcomInBuffer, ptr + 1)) = 128
  /\ \A i \in 1..128 : BufAt(remcomInBuffer, ptr + i) \in LowerHexDigits \cup UpperHexDigits

C10_RegisterRoundTrip ==
  [][ /\ (pc = "gp_wait" /\ LastCmd = Ord("g") /\ checksum = xmitcsum /\ Len(host_got) = 128
            /\ WholeFrame(rx') /\ FramePayload(rx') = << Ord("G") >> \o host_got) =>
           /\ registers' = registers
           /\ host_got' = Str(<<"O","K">>)
      /\ (pc = "gp_wait" /\ AcceptedG
            /\ WholeFrame(rx') /\ FramePayload(rx') = Str(<<"g">>)
            /\ SentSum(rx') = Ord("g")) =>
           host_got' = LowerCase(SubSeq(remcomInBuffer, ptr + 2, ptr + 129)) ]_vars

\* a 'g' returned in lower case the registers a 'G' had written in upper case
C10_Witness ==
  /\ pc = "pp_ack"
  /\ LastCmd = Ord("g")
  /\ registers = HostRegs
  /\ host_got = LowerCase(UpperHex(RegBytes(HostRegs)))
  /\ host_got # UpperHex(RegBytes(HostRegs))

(***************************************************************************)
(* C11: the reply to 'g' is exactly 128 lowercase hex characters: the 16   *)
(* snapshot words in the order EAX, ECX, EDX, EBX, ESP, EBP, ESI, EDI,     *)
(* EIP, EFLAGS, CS, SS, DS, ES, FS, GS, each least significant byte first. *)
(***************************************************************************)
WireOrder == << EAX, ECX, EDX, EBX, ESP, EBP, ESI, EDI, PC, PS, CS, SS, DS, ES, FS, GS >>

\* byte k (0 the least significant) of the 32-bit word x
WordByte(x, k) ==
  (CASE k = 0 -> x
     [] k = 1 -> x \div 256
     [] k = 2 -> x \div 65536
     [] k = 3 -> x \div 16777216) % 256

\* the value of the two hex characters of q at 1-based positions i and i + 1
HexPair(q, i) == 16 * Nibble(q[i]) + Nibble(q[i + 1])

\* the stub has accepted a packet and waits for the answer to its reply
Replied == pc = "pp_ack" /\ tx # <<>> /\ tx[1] = Ord("+")

C11_GetRegsReply ==
  (Replied /\ LastCmd = Ord("g")) =>
    /\ Len(remcomOutBuffer) = 128
    /\ host_got = remcomOutBuffer
    /\ \A i \in 1..128 : remcomOutBuffer[i] \in LowerHexDigits
    /\ \A j \in 1..16, k \in 0..3 :
         HexPair(remcomOutBuffer, 8 * (j - 1) + 2 * k + 1) = WordByte(registers[WireOrder[j]], k)

\* eax = 0x11223344 was sent as 44332211, followed by the fifteen other words
C11_Witness ==
  /\ Replied /\ LastCmd = Ord("g")
  /\ registers[EAX] = 287454020
  /\ Len(remcomOutBuffer) = 128
  /\ SubSeq(remcomOutBuffer, 1, 8) = Str(<<"4","4","3","3","2","2","1","1">>)

(***************************************************************************)
(* C12: for a 'P n=hhhhhhhh' packet, when n (parsed as hex) is in 0..15    *)
(* the reply is OK, slot n of the snapshot becomes the little-endian value *)
(* of the 8 hex characters and the other 15 slots are unchanged; when n is *)
(* 16 or more, or the register number or the '=' is missing, the reply is  *)
(* E01 and the snapshot is unchanged.                                      *)
(***************************************************************************)
HexDigitCodes == LowerHexDigits \cup UpperHexDigits

\* number of hex digits of q from the 1-based position i on
DigitRun(q, i) ==
  LET stops == {j \in i..Len(q) : q[j] \notin HexDigitCodes}
  IN  IF stops = {} THEN Len(q) - i + 1
      ELSE (CHOOSE j \in stops : \A k \in stops : j <= k) - i

\* the d hex digits of q from position i on denote a number below 16
BelowSixteen(q, i, d) == d >= 1 /\ \A j \in i..(i + d - 2) : q[j] = Ord("0")

\* the stub accepts a packet in this step
AcceptStep == pc = "gp_wait" /\ tx' # <<>> /\ tx'[1] = Ord("+")

\* the packet the command loop dispatches in this step
Dispatched == CStr(remcomInBuffer', ptr')

C12_SetRegister ==
  [][ (AcceptStep /\ BufAt(remcomInBuffer', ptr') = Ord("P")) =>
        \A q \in {Dispatched} : \A d \in {DigitRun(q, 2)} :
        LET eq == 2 + d
            n == Nibble(q[eq - 1])
        IN  IF d >= 1 /\ eq <= Len(q) /\ q[eq] = Ord("=") /\ BelowSixteen(q, 2, d)
            THEN (Len(q) = eq + 8 /\ \A j \in (eq + 1)..(eq + 8) : q[j] \in HexDigitCodes) =>
                   /\ host_got' = Str(<<"O","K">>)
                   /\ \A k \in 0..3 : WordByte(registers'[n], k) = HexPair(q, eq + 1 + 2 * k)
                   /\ \A r \in 0..(NUMREGS - 1) : r # n => registers'[r] = registers[r]
            ELSE /\ host_got' = Str(<<"E","0","1">>)
                 /\ registers' = registers ]_vars

\* slot 15 was written with 0x000100a7 by P0f=A7000100, a packet for slot 16
\* was refused, and the other slots are those of the stop
C12_Witness ==
  /\ Replied
  /\ CStr(remcomInBuffer, ptr) = Str(<<"P","1","0","=","0","0","3","0","0","0","0","0">>)
  /\ host_got = Str(<<"E","0","1">>)
  /\ registers[GS] = 65703
  /\ registers # stop_regs
  /\ \A r \in 0..(NUMREGS - 2) : registers[r] = stop_regs[r]

(***************************************************************************)
(* C13: for an 'm addr,len' packet whose whole range is readable, the      *)
(* reply is exactly 2*len lowercase hex characters encoding the bytes at   *)
(* addr, addr+1, ..., addr+len-1 in ascending order, target memory and the *)
(* register snapshot are unchanged, and len = 0 gives the empty reply.     *)
(***************************************************************************)
\* the character of q at the 1-based position i, NUL past its end
At(q, i) == IF i >= 1 /\ i <= Len(q) THEN q[i] ELSE 0

RECURSIVE HexNumber(_, _, _)
\* the number the d hex digits of q from position i on denote
HexNumber(q, i, d) ==
  IF d = 0 THEN 0 ELSE 16 * HexNumber(q, i, d - 1) + Nibble(q[i + d - 1])

\* q is 'm' or 'M', an address of 1 to 7 hex digits, ',', a length of 1 to 7
\* hex digits
HasAddrLen(q) ==
  /\ DigitRun(q, 2) \in 1..7
  /\ At(q, 2 + DigitRun(q, 2)) = Ord(",")
  /\ DigitRun(q, 3 + DigitRun(q, 2)) \in 1..7

PacketAddr(q) == HexNumber(q, 2, DigitRun(q, 2))
PacketLen(q) == HexNumber(q, 3 + DigitRun(q, 2), DigitRun(q, 3 + DigitRun(q, 2)))

\* position of the character after the length
AfterLen(q) == 3 + DigitRun(q, 2) + DigitRun(q, 3 + DigitRun(q, 2))

C13_ReadMemory ==
  [][ (AcceptStep /\ BufAt(remcomInBuffer', ptr') = Ord("m")) =>
        \A q \in {Dispatched} :
           HasAddrLen(q) =>
             \A addr \in {PacketAddr(q)}, len \in {PacketLen(q)} :
                (\A a \in addr..(addr + len - 1) : a \in DOMAIN mem) =>
                  /\ Len(host_got') = 2 * len
                  /\ \A i \in 1..(2 * len) : host_got'[i] \in LowerHexDigits
                  /\ \A k \in 0..(len - 1) : HexPair(host_got', 2 * k + 1) = mem[addr + k]
                  /\ touched' = [k \in 1..len |-> addr + k - 1]
                  /\ tx' = << Ord("+") >> \o Frame(host_got')
                  /\ mem' = mem
                  /\ registers' = registers
                  /\ (len = 0 => tx' = Str(<<"+","$","#","0","0">>)) ]_vars

\* the two mapped bytes were read as 0102, the second one being the last
\* mapped byte
C13_Witness ==
  /\ Replied
  /\ CStr(remcomInBuffer, ptr) = Str(<<"m","1","0","0","0",",","2">>)
  /\ mem = InitMem
  /\ host_got = Str(<<"0","1","0","2">>)
  /\ touched = << MemBase, MemBase + 1 >>

(***************************************************************************)
(* C14: when an address touched by an 'm' or 'M' command faults, control   *)
(* returns to the memory primitive, the reply to that command is E03, no   *)
(* stop reply (Snn) is sent, the command loop is not entered a second      *)
(* time, and the stub stays stopped and continues to serve packets.        *)
(***************************************************************************)
\* an access of the command dispatched in this step faulted
FaultStep ==
  AcceptStep /\ touched' # <<>> /\ touched'[Len(touched')] \notin DOMAIN mem

C14_FaultRepliesE03 ==
  [][ /\ FaultStep => pc' = "mem_access" /\ tx' = << Ord("+") >>
      /\ pc = "mem_access" => pc' = "mem_longjmp" /\ mem_err' = 1 /\ tx' = tx
      /\ pc = "mem_longjmp" =>
           /\ host_got' = Str(<<"E","0","3">>)
           /\ tx' = << Ord("+") >> \o Frame(Str(<<"E","0","3">>))
           /\ pc' = "pp_ack"
      /\ pc \in {"mem_access", "mem_longjmp"} =>
           UNCHANGED << sigval, stop_reply, stop_regs, gdb_i386vector >> ]_vars

AddrCommaLen(q) ==
  /\ DigitRun(q, 2) >= 1
  /\ At(q, 2 + DigitRun(q, 2)) = Ord(",")
  /\ DigitRun(q, 3 + DigitRun(q, 2)) >= 1

\* nothing of target memory was accessed in this step
NoAccess ==
  /\ touched' = <<>>
  /\ armed' = FALSE
  /\ mem_fault_routine' = "NULL"
  /\ mem' = mem

C16_MalformedMemoryPacket ==
  [][ /\ (AcceptStep /\ BufAt(remcomInBuffer', ptr') = Ord("m")) =>
           \A q \in {Dispatched} :
              ~AddrCommaLen(q) =>
                /\ tx' = << Ord("+") >> \o Frame(Str(<<"E","0","1">>))
                /\ NoAccess
      /\ (AcceptStep /\ BufAt(remcomInBuffer', ptr') = Ord("M")) =>
           \A q \in {Dispatched} :
              ~(AddrCommaLen(q) /\ At(q, AfterLen(q)) = Ord(":")) =>
                /\ tx' = << Ord("+") >> \o Frame(Str(<<"E","0","2">>))
                /\ NoAccess ]_vars

\* an 'M' packet without ':' was refused after memory had been written
C16_Witness ==
  /\ Replied
  /\ CStr(remcomInBuffer, ptr) = Str(<<"M","1","0","0","0",",","2">>)
  /\ host_got = Str(<<"E","0","2">>)
  /\ ~armed /\ touched = <<>>
  /\ mem # InitMem

(***************************************************************************)
(* C17: for a well-formed 'M addr,len:hex' packet whose whole range is     *)
(* writable, the reply is OK, afterwards the bytes at addr..addr+len-1     *)
(* equal the decoded hex bytes in order, and every target byte outside     *)
(* that range is unchanged; a later 'm addr,len' returns the written       *)
(* bytes.                                                                  *)
(***************************************************************************)
\* q is 'M', address, ',', length, ':' and two hex digits for each byte
WellFormedWrite(q) ==
  /\ HasAddrLen(q)
  /\ At(q, AfterLen(q)) = Ord(":")
  /\ Len(q) = AfterLen(q) + 2 * PacketLen(q)
  /\ \A j \in (AfterLen(q) + 1)..Len(q) : q[j] \in HexDigitCodes

C17_WriteMemory ==
  [][ /\ (AcceptStep /\ BufAt(remcomInBuffer', ptr') = Ord("M")) =>
           \A q \in {Dispatched} :
              WellFormedWrite(q) =>
                \A addr \in {PacketAddr(q)}, len \in {PacketLen(q)} :
                   (\A a \in addr..(addr + len - 1) : a \in DOMAIN mem) =>
                     /\ tx' = << Ord("+") >> \o Frame(Str(<<"O","K">>))
                     /\ DOMAIN mem' = DOMAIN mem
                     /\ \A k \in 0..(len - 1) :
                          mem'[addr + k] = HexPair(q, AfterLen(q) + 1 + 2 * k)
                     /\ \A a \in DOMAIN mem \ (addr..(addr + len - 1)) : mem'[a] = mem[a]
      /\ mem' # mem => (AcceptStep /\ BufAt(remcomInBuffer', ptr') = Ord("M"))
      /\ (AcceptStep /\ BufAt(remcomInBuffer', ptr') = Ord("m")) =>
           \A q \in {Dispatched} :
              HasAddrLen(q) =>
                \A addr \in {PacketAddr(q)}, len \in {PacketLen(q)} :
                   (\A a \in addr..(addr + len - 1) : a \in DOMAIN mem) =>
                     /\ Len(host_got') = 2 * len
                     /\ \A k \in 0..(len - 1) :
                          HexPair(host_got', 2 * k + 1) = mem'[addr + k] ]_vars

\* the bytes ab and cd written by M1000,2:abCD were read back by m1000,2
C17_Witness ==
  /\ Replied
  /\ CStr(remcomInBuffer, ptr) = Str(<<"m","1","0","0","0",",","2">>)
  /\ mem[MemBase] = 171 /\ mem[MemBase + 1] = 205
  /\ host_got = Str(<<"a","b","c","d">>)

(***************************************************************************)
(* C18: for an accepted inbound packet whose payload has ':' at index 2,   *)
(* the two characters at indexes 0 and 1 are a sequence prefix that is     *)
(* echoed before the next outbound packet and the command dispatched is    *)
(* the payload from index 3 onward; for any other payload the whole        *)
(* payload is dispatched and nothing is echoed.                            *)
(***************************************************************************)
\* the frame read in this step is accepted
AcceptedFrame ==
  pc = "gp_wait" /\ WholeFrame(rx') /\ Sum(FramePayload(rx')) % 256 = SentSum(rx')

C18_SequencePrefix ==
  [][ AcceptedFrame =>
        \A p \in {FramePayload(rx')} :
           IF Len(p) >= 3 /\ p[3] = Ord(":")
           THEN /\ ptr' = 3
                /\ Dispatched = SubSeq(p, 4, Len(p))
                /\ Len(tx') >= 3
                /\ SubSeq(tx', 1, 3) = << Ord("+"), p[1], p[2] >>
                /\ (Len(tx') > 3 => tx'[4] = Ord("$"))
           ELSE /\ ptr' = 0
                /\ Dispatched = p
                /\ tx'[1] = Ord("+")
                /\ (Len(tx') > 1 => tx'[2] = Ord("$")) ]_vars

(***************************************************************************)
(* C19: after gdb_target_close (or the exit handler registered by          *)
(* gdb_target_init) runs, the handlers of all four signals SIGSEGV,        *)
(* SIGFPE, SIGTRAP and SIGILL are the defaults and gdb_initialized is 0,   *)
(* for any preceding sequence of init, close and breakpoint calls; after   *)
(* gdb_target_init all four stub handlers are installed and                *)
(* gdb_initialized is 1.                                                   *)
(***************************************************************************)
AllDefault ==
  /\ handlers["SIGSEGV"] = "SIG_DFL" /\ handlers["SIGFPE"] = "SIG_DFL"
  /\ handlers["SIGTRAP"] = "SIG_DFL" /\ handlers["SIGILL"] = "SIG_DFL"

AllInstalled ==
  /\ handlers["SIGSEGV"] = "sigsegv_handler" /\ handlers["SIGFPE"] = "sigfpe_handler"
  /\ handlers["SIGTRAP"] = "sigtrap_handler" /\ handlers["SIGILL"] = "sigill_handler"

C19_LifecycleHandlers ==
  /\ last_op = "close" => (AllDefault /\ gdb_initialized = 0)
  /\ (last_op = "exit" /\ atexit_registered) => (AllDefault /\ gdb_initialized = 0)
  /\ last_op = "init" => (AllInstalled /\ gdb_initialized = 1)

\* the target was closed after a stop at a breakpoint had been served
C19_Witness ==
  /\ last_op = "close"
  /\ gdb_i386vector = BreakpointVector
  /\ stop_reply = Str(<<"S","0","5">>)
  /\ AllDefault /\ gdb_initialized = 0

(***************************************************************************)
(* C20: for any sequence of gdb_target_init, gdb_target_close and          *)
(* breakpoint calls, a breakpoint() call raises the software breakpoint    *)
(* trap (and so enters the stub with stop reply S05) if and only if the    *)
(* most recent lifecycle call before it was gdb_target_init; before any    *)
(* init and after a close it does nothing and sends no bytes.              *)
(***************************************************************************)
C20_BreakpointGate ==
  [][ (pc = "running" /\ last_op' = "breakpoint") =>
        IF last_lifecycle = "init"
        THEN /\ pc' = "pp_ack"
             /\ gdb_i386vector' = 3
             /\ stop_reply' = Str(<<"S","0","5">>)
             /\ tx' = Frame(Str(<<"S","0","5">>))
        ELSE /\ pc' = "running"
             /\ UNCHANGED << tx, hostq, host_got, registers, cpu, mem, stop_reply,
                             gdb_i386vector, remcomInBuffer, remcomOutBuffer, handlers,
                             gdb_initialized >> ]_vars

\* breakpoint() was called after a close that followed an init, and the
\* program runs on
C20_Witness ==
  /\ last_op = "breakpoint"
  /\ last_lifecycle = "close"
  /\ atexit_registered
  /\ pc = "running"

(***************************************************************************)
(* C21: a packet whose first byte is not one of ? H q d g G P m M c s k,   *)
(* and a 'q' packet that is none of qC, qAttached, qfThreadInfo,           *)
(* qsThreadInfo, qSymbol::, is answered with the empty reply ($#00) and    *)
(* leaves the snapshot, target memory and the Stopped state unchanged.     *)
(***************************************************************************)
CommandLetters ==
  { Ord("?"), Ord("H"), Ord("q"), Ord("d"), Ord("g"), Ord("G"), Ord("P"),
    Ord("m"), Ord("M"), Ord("c"), Ord("s"), Ord("k") }

KnownQueries ==
  { Str(<<"q","C">>),
    Str(<<"q","A","t","t","a","c","h","e","d">>),
    Str(<<"q","f","T","h","r","e","a","d","I","n","f","o">>),
    Str(<<"q","s","T","h","r","e","a","d","I","n","f","o">>),
    Str(<<"q","S","y","m","b","o","l",":",":">>) }

\* the packet q is one the command loop has no case for
Unhandled(q) ==
  \/ At(q, 1) \notin CommandLetters
  \/ At(q, 1) = Ord("q") /\ q \notin KnownQueries

C21_UnknownPacket ==
  [][ AcceptStep =>
        \A q \in {Dispatched} :
           Unhandled(q) =>
             /\ tx' = << Ord("+") >> \o Frame(<<>>)
             /\ host_got' = <<>>
             /\ pc' = "pp_ack"
             /\ UNCHANGED << registers, mem, sigval, stepping, gdb_i386vector >> ]_vars

\* the query qCx was answered with the empty reply, the snapshot and target
\* memory being those of the stop
C21_Witness ==
  /\ Replied
  /\ CStr(remcomInBuffer, ptr) = Str(<<"q","C","x">>)
  /\ tx = << Ord("+") >> \o Frame(<<>>)
  /\ host_got = <<>>
  /\ registers = stop_regs
  /\ mem = InitMem

(***************************************************************************)
(* C22: the stub leaves the Stopped state only when it processes a 'c' or  *)
(* an 's' packet: after any sequence of other packets, 'k' included, it is *)
(* still in the command loop, and handle_exception never returns to the    *)
(* signal handler that called it (the only way out is the resume           *)
(* trampoline).                                                            *)
(***************************************************************************)
C22_LeavesOnlyOnResume ==
  [][ (InLoop /\ pc' \notin ReadingPcs) =>
        /\ AcceptStep
        /\ BufAt(remcomInBuffer', ptr') \in {Ord("c"), Ord("s")}
        /\ pc' = "rtp_iret" ]_vars

\* a 'k' packet was answered and the stub is still in the loop of the stop
C22_Witness ==
  /\ Replied
  /\ InLoop
  /\ CStr(remcomInBuffer, ptr) = Str(<<"k">>)
  /\ host_got = <<>>
  /\ registers = stop_regs

(***************************************************************************)
(* C23: for every byte sequence B of bounded length,                       *)
(* hex2mem(mem2hex(B)) = B; mem2hex emits two lower-case hex characters    *)
(* per byte, the high nibble first, and hex2mem accepts upper-case and     *)
(* lower-case digits alike.                                                *)
(***************************************************************************)
\* the lower-case hex digit of a value below 16
LowerDigit(v) == IF v < 10 THEN 48 + v ELSE 87 + v

C23_HexRoundTrip ==
  [][ /\ (pc = "codec_src" /\ pc' = "codec_hex") =>
           /\ Len(remcomOutBuffer') = 2 * count'
           /\ \A i \in 1..count' :
                /\ remcomOutBuffer'[2 * i - 1] = LowerDigit(mem[MemBase + i - 1] \div 16)
                /\ remcomOutBuffer'[2 * i] = LowerDigit(mem[MemBase + i - 1] % 16)
      /\ (pc = "codec_in" /\ pc' = "codec_done") => mem' = mem ]_vars

\* the bytes 0x1a, 0xab were encoded as 1aab, sent back as 1AaB and decoded
\* to the same bytes
C23_Witness ==
  /\ pc = "codec_done"
  /\ count = 2
  /\ remcomOutBuffer = Str(<<"1","a","a","b">>)
  /\ remcomInBuffer = Str(<<"1","A","a","B">>)
  /\ MemBytes(mem, 2) = << 26, 171 >>

(***************************************************************************)
(* C25: a 'c' or 's' packet changes at most the EIP slot (it becomes the   *)
(* address given in the packet when the packet carries a hex address and   *)
(* is untouched otherwise) and bit 8 of the EFLAGS slot; the other 14      *)
(* slots and the other 31 bits of EFLAGS are unchanged.                    *)
(***************************************************************************)
C25_ResumeFrame ==
  [][ (AcceptStep /\ BufAt(remcomInBuffer', ptr') \in {Ord("c"), Ord("s")}) =>
        \A q \in {Dispatched} : \A d \in {DigitRun(q, 2)} :
           /\ \A r \in 0..(NUMREGS - 1) : r \notin {PC, PS} => registers'[r] = registers[r]
           /\ IntAnd(registers'[PS], TFMask) = IntAnd(registers[PS], TFMask)
           /\ d = 0 => registers'[PC] = registers[PC]
           /\ d \in 1..7 => registers'[PC] = HexNumber(q, 2, d) ]_vars

\* the loop was left by c3000: the EIP slot is 0x3000, bit 8 of EFLAGS went
\* from 1 to 0 and nothing else of the snapshot of the stop changed
C25_Witness ==
  /\ pc = "rtp_iret"
  /\ CStr(remcomInBuffer, ptr) = Str(<<"c","3","0","0","0">>)
  /\ registers[PC] = 12288
  /\ stop_regs[PC] # 12288
  /\ TF(stop_regs[PS]) = 1
  /\ registers[PS] = stop_regs[PS] - 256
  /\ \A r \in 0..(NUMREGS - 1) : r \notin {PC, PS} => registers[r] = stop_regs[r]

(***************************************************************************)
(* C26: while getpacket reads a payload, a '$' discards everything read so *)
(* far and restarts the frame: the running checksum and the count are      *)
(* reset to zero, and the frame that is finally accepted or rejected       *)
(* consists only of the bytes after the last '$' before '#'.               *)
(***************************************************************************)
C26_DollarRestarts ==
  [][ (pc = "gp_wait" /\ WholeFrame(rx') /\ Count(rx', Ord("$")) >= 2) =>
        \A p \in {FramePayload(rx')} :
           /\ count' = Len(p)
           /\ checksum' = Sum(p) % 256
           /\ CStr(remcomInBuffer', 0) = p
           /\ IF Sum(p) % 256 = SentSum(rx')
              THEN tx'[1] = Ord("+") /\ pc' \in {"pp_ack", "rtp_iret"}
              ELSE tx' = << Ord("-") >> /\ pc' = "gp_wait" ]_vars

\* $X$?#3f was read: X was dropped, the packet ? was accepted and answered
C26_Witness ==
  /\ pc = "pp_ack"
  /\ rx = Str(<<"$","X","$","?","#","3","f">>)
  /\ count = 1
  /\ checksum = 63
  /\ CStr(remcomInBuffer, 0) = Str(<<"?">>)
  /\ tx = << Ord("+") >> \o Frame(stop_reply)

(***************************************************************************)
(* C30: for every inbound byte stream getpacket writes only to the indexes *)
(* 0..BUFMAX-1 of the inbound buffer, the terminating NUL it stores after  *)
(* the payload included: a payload of up to BUFMAX-1 bytes is accepted and *)
(* a longer one never causes a write past the end of the buffer.           *)
(***************************************************************************)
C30_WritesInBounds ==
  /\ ~oob_write
  /\ Len(remcomInBuffer) <= BUFMAX

(***************************************************************************)
(* C28: for each of the four supported signals (SIGSEGV, SIGFPE, SIGTRAP,  *)
(* SIGILL), when the handler takes the command-loop path it records        *)
(* gdb_i386errcode as the low 16 bits of the signal-mask field of the      *)
(* exception record before it calls the command loop, and gdb_i386vector   *)
(* equals the vector of that exception while the loop runs.                *)
(***************************************************************************)
C28_ErrcodeRecorded ==
  [][ /\ (pc = "running" /\ pc' \in ReadingPcs) =>
           /\ gdb_i386errcode' = exception_state'.sigmask % HalfWord
           /\ sigval' = computeSignal(gdb_i386vector')
      /\ (InLoop /\ pc' \in ReadingPcs) => gdb_i386vector' = gdb_i386vector ]_vars

(***************************************************************************)
(* C27: a SIGSEGV delivered while mem_fault_routine is non-null never      *)
(* reaches the command loop: the handler sets mem_err to 1, clears         *)
(* mem_fault_routine, sends and receives no bytes and leaves               *)
(* gdb_i386vector and gdb_i386errcode unchanged; a SIGSEGV delivered while *)
(* mem_fault_routine is null, and every SIGFPE, SIGTRAP and SIGILL, enters *)
(* the command loop.                                                       *)
(***************************************************************************)
\* a signal is delivered to the running program in this step
RaiseStep == pc = "running" /\ last_op' \in {"other", "breakpoint"} /\ exception_state' # exception_state

C27_FaultRoutineBypassesLoop ==
  [][ /\ (pc = "mem_access" /\ mem_fault_routine # "NULL") =>
           /\ pc' = "mem_longjmp"
           /\ mem_err' = 1
           /\ mem_fault_routine' = "NULL"
           /\ UNCHANGED << tx, rx, hostq, host_got, remcomOutBuffer >>
           /\ UNCHANGED << gdb_i386vector, gdb_i386errcode, sigval, stop_reply >>
      /\ (pc = "mem_access" /\ mem_fault_routine = "NULL") =>
           /\ pc' = "pp_ack"
           /\ tx' = tx \o Frame(StopReply(computeSignal(FaultVector)))
      /\ (RaiseStep /\ AllInstalled) =>
           /\ pc' = "pp_ack"
           /\ tx' = Frame(StopReply(computeSignal(gdb_i386vector'))) ]_vars

\* the program was stopped by SIGILL, and a fault of the 'm' packet of that
\* stop was taken by the routine: nothing was sent after the '+'
C27_Witness ==
  /\ pc = "mem_longjmp"
  /\ gdb_i386vector = 290
  /\ mem_err = 1
  /\ mem_fault_routine = "NULL"
  /\ tx = << Ord("+") >>
  /\ host_got = StopReply(computeSignal(290))

(***************************************************************************)
(* C24: the register snapshot is changed only by G, P, c and s packets:    *)
(* processing any of ?, H, q, d, g, m, k or an unknown packet (and an M    *)
(* whose range does not overlap the snapshot) leaves all 16 slots          *)
(* unchanged, so 'g' always returns the values captured at the stop as     *)
(* modified by the G and P packets processed so far.                       *)
(***************************************************************************)
\* the stub is inside the command loop: blocked in a read, or in an access
\* of target memory
Stopped == pc \in ReadingPcs \cup {"mem_access", "mem_longjmp"}

C24_SnapshotWriters ==
  [][ (Stopped /\ pc' \in ReadingPcs \cup {"mem_access", "mem_longjmp", "rtp_iret"}
         /\ registers' # registers) =>
        /\ AcceptStep
        /\ BufAt(remcomInBuffer', ptr') \in {Ord("G"), Ord("P"), Ord("c"), Ord("s")} ]_vars

(***************************************************************************)
(* C29: liveness of the handshake.  If for each reply the host eventually  *)
(* answers some transmission of it with '+', and the host eventually sends *)
(* a well-formed frame with a correct checksum, then every reply is        *)
(* eventually acknowledged and the stub eventually fetches and dispatches  *)
(* the next command; if the host never sends '+', putpacket retransmits    *)
(* forever and no further command is ever processed.                       *)
(***************************************************************************)
\* a '+' is on the line while putpacket waits for its answer
PlusOnLine == pc = "pp_ack" /\ Count(hostq, Ord("+")) > 0

\* a frame with a correct checksum is on the line while getpacket waits for '$'
GoodOnLine ==
  /\ pc = "gp_wait"
  /\ WholeFrame(hostq)
  /\ Sum(FramePayload(hostq)) % 256 = SentSum(hostq)

\* the reply was acknowledged by the last byte read
Acknowledged == pc = "gp_wait" /\ rx # <<>> /\ rx[Len(rx)] = Ord("+")

\* a packet was accepted and its command taken by the bytes just read
Fetched == pc \in {"pp_ack", "rtp_iret"} /\ tx # <<>> /\ tx[1] = Ord("+") /\ WholeFrame(rx)

C29_HandshakeLiveness ==
  /\ pc = "pp_ack" ~> Acknowledged
  /\ pc = "gp_wait" ~> Fetched
  /\ [][ /\ (pc = "pp_ack" /\ ~PlusOnLine) =>
              /\ pc' = "pp_ack"
              /\ UNCHANGED << remcomInBuffer, ptr, remcomOutBuffer, host_got >>
         /\ (pc = "pp_ack" /\ hostq # <<>> /\ Head(hostq) # Ord("+")) =>
              /\ hostq' = Tail(hostq)
              /\ tx' = tx \o Frame(host_got) ]_vars

\* the reply was sent again after a '-' and acknowledged by the '+' that
\* followed it
C29_Witness ==
  /\ Acknowledged
  /\ rx = << Ord("-"), Ord("+") >>
  /\ tx = Frame(host_got)
  /\ hostq = <<>>

(***************************************************************************)
(* C31: for every 'm addr,len' packet, whatever len the host sends, the    *)
(* reply built in the outbound buffer occupies at most BUFMAX bytes, its   *)
(* terminating NUL included: mem2hex never stores past the end of the      *)
(* outbound buffer.                                                        *)
(***************************************************************************)
C31_ReplyFitsOutBuffer ==
  Len(remcomOutBuffer) + 1 <= BUFMAX

(***************************************************************************)
(* C32: getpacket acknowledges a frame with '+' only when both characters  *)
(* after '#' are hex digits whose value equals the sum of the payload: a   *)
(* frame whose checksum field holds a character that is no hex digit is    *)
(* never accepted, whatever its payload.                                   *)
(***************************************************************************)
C32_NonHexChecksumRejected ==
  [][ AcceptStep =>
        /\ WholeFrame(rx')
        /\ Sum(FramePayload(rx')) % 256 = SentSum(rx') ]_vars

(***************************************************************************)
(* C33: whether an accepted packet is treated as sequence-prefixed depends *)
(* only on its own payload: a payload shorter than 3 bytes is never        *)
(* treated as prefixed, nothing is echoed for it and it is dispatched from *)
(* its first byte, whatever packets were received before it.               *)
(***************************************************************************)
C33_ShortPayloadNotPrefixed ==
  [][ (AcceptedFrame /\ Len(FramePayload(rx')) < 3) =>
        /\ PacketStart(remcomInBuffer') = 0
        /\ AckBytes(remcomInBuffer') = << Ord("+") >>
        /\ ptr' = 0
        /\ LastCmd' = BufAt(FramePayload(rx'), 0) ]_vars

(***************************************************************************)
(* C34: a memory fault is not sticky.  mem_err is cleared before every     *)
(* faultable access of 'm' and 'M', so after a command that replied E03 a  *)
(* following 'm' on a readable range replies with the data and a following *)
(* 'M' on a writable range replies OK, in every order of faulting and      *)
(* non-faulting commands.                                                  *)
(***************************************************************************)
\* every byte of the range of the packet q is mapped
RangeMapped(q) ==
  \A a \in PacketAddr(q)..(PacketAddr(q) + PacketLen(q) - 1) : a \in DOMAIN mem

====
